---- MODULE Spec2Model ----
(***************************************************************************)
(* Extraction-and-normalisation pipeline of the election-results           *)
(* repository: the result validator (extractors/validators.py), the        *)
(* line-oriented race parsers and the precinct-table parser                *)
(* (extractors/parsers.py), the party table (extractors/parties.py), the   *)
(* Westchester precinct aggregator (extract_westchester_summary.py), the   *)
(* county driver (fetch_results.py), the mirrored-text repair              *)
(* (extractors/pdf_text_fixer.py) and the candidate merge                  *)
(* (fix_putnam_consolidation.py).                                          *)
(***************************************************************************)
EXTENDS FiniteSets, Integers, Sequences, TLC

VARIABLES
    \* ---- validators.py: the argument and the outcome of validate_extraction
    data,
    validation,
    \* ---- parsers.py: the locals of one _parse_races invocation
    races,              \* the output list
    current_race,       \* the open race, or None
    current_candidate,  \* the pending candidate accumulator, or None
    in_race,            \* StandardPDFParser: between a marker and 'Total Ballots Cast'
    prev_line,          \* lines[i - 1] of the current page ('' before its first line)
    last_line,          \* the last line consumed, on this page or an earlier one
    nlines,             \* lines of the document consumed so far
    markers,            \* race-marker lines among them
    outcome,            \* "idle", "running", "returned" or "raised"
    \* ---- PrecinctTableParser._parse_races and extract_westchester_summary.main
    current_race_title, \* title of the open race ("" for None)
    candidate_totals,   \* PrecinctTableParser: per-candidate accumulator
    current_race_data,  \* aggregator: the open race, or None
    races_list,         \* aggregator: the race list written out
    doc,                \* the pages consumed so far
    \* ---- fetch_results.py: one process_county call
    registry,           \* HUDSON_VALLEY_COUNTIES
    county_id,
    election_date,
    dry_run,
    force,
    pc,                 \* the statement process_county is about to execute
    source,             \* result of fetch_source ("" for None)
    parser,             \* class of the parser returned by get_parser
    saved,              \* the JSON output file was written
    returned,           \* "pending", "True" or "False"
    \* ---- a call of a pure function: its argument and its result
    input,
    output,
    \* ---- concurrent parse invocations: the call frame of each
    inv

valVars == <<data, validation>>
parseVars == <<races, current_race, current_candidate, in_race, prev_line, last_line, nlines,
               markers, outcome>>
tableVars == <<current_race_title, candidate_totals, current_race_data, races_list, doc>>
countyVars == <<registry, county_id, election_date, dry_run, force, pc, source, parser,
                saved, returned>>
auxVars == <<input, output, inv>>
vars == <<valVars, parseVars, tableVars, countyVars, auxVars>>

\* ------------------------------------------------------------------------
\* Bounds of the validator's input space
\* ------------------------------------------------------------------------
MaxRaces == 1
MaxCandidates == 2
MaxPartyLines == 1

SeqUpTo(S, n) == UNION {[1..k -> S] : k \in 0..n}

RECURSIVE SumSeq(_)
SumSeq(s) == IF s = <<>> THEN 0 ELSE Head(s) + SumSeq(Tail(s))

\* ------------------------------------------------------------------------
\* Python values as the validator sees them
\* ------------------------------------------------------------------------
\* A value stored under a dictionary key: a str, an int, a (non-empty,
\* unhashable) list, or "absent" when the key is not in the dictionary.
PyStr(s) == [t |-> "str", s |-> s, n |-> 0]
PyInt(n) == [t |-> "int", s |-> "", n |-> n]
PyList == [t |-> "list", s |-> "['x']", n |-> 0]
PyAbsent == [t |-> "absent", s |-> "", n |-> 0]

\* bool(v) of a stored value
Truthy(v) ==
    CASE v.t = "str" -> v.s # ""
      [] v.t = "int" -> v.n # 0
      [] v.t = "list" -> TRUE
      [] OTHER -> FALSE

\* hash(v) succeeds (v may be a member of a set)
Hashable(v) == v.t # "list"

\* isinstance(v, (int, float))
IsNumeric(v) == v.t = "int"

\* str(v) as interpolated in an f-string
Format(v) == v.s

\* dict.get(key, default)
DictGet(v, default) == IF v.t = "absent" THEN PyStr(default) ELSE v

\* A party-line entry, a candidate entry, a race entry, the top-level data
NonDictPartyLine == [isdict |-> FALSE, party |-> PyAbsent, votes |-> PyAbsent]
DictPartyLine(party, votes) == [isdict |-> TRUE, party |-> party, votes |-> votes]

NonDictCandidate ==
    [isdict |-> FALSE, name |-> PyAbsent, total_votes |-> PyAbsent,
     party_lines_kind |-> "absent", party_lines |-> <<>>]
DictCandidate(name, total_votes, kind, party_lines) ==
    [isdict |-> TRUE, name |-> name, total_votes |-> total_votes,
     party_lines_kind |-> kind, party_lines |-> party_lines]

NonDictRace == [isdict |-> FALSE, race_title |-> PyAbsent,
                candidates_kind |-> "absent", candidates |-> <<>>]
DictRace(race_title, kind, candidates) ==
    [isdict |-> TRUE, race_title |-> race_title,
     candidates_kind |-> kind, candidates |-> candidates]

\* data: kind is "nondict", "noraces" (dict without the key), "nonlist"
\* (races is not a list) or "list"
Data(kind, race_list) == [kind |-> kind, races |-> race_list]

\* An issue string, kept as its template and the values interpolated in it
Issue(kind, cand, detail) == [race |-> -1, kind |-> kind, cand |-> cand, detail |-> detail]

Returned(issues) == [raised |-> FALSE, exc |-> "", issues |-> issues]
Raised(exc) == [raised |-> TRUE, exc |-> exc, issues |-> <<>>]

\* ------------------------------------------------------------------------
\* validators.py
\* ------------------------------------------------------------------------
\* The loop over party_lines (lines 136-169), from index k on
RECURSIVE PartyLinesLoop(_, _, _, _, _, _)
PartyLinesLoop(party_lines, k, candidate_name, issues, party_line_total, party_names) ==
    IF k > Len(party_lines)
    THEN [raised |-> FALSE, exc |-> "", issues |-> issues,
          party_line_total |-> party_line_total]
    ELSE
    LET party_line == party_lines[k] IN
    IF ~party_line.isdict
    THEN PartyLinesLoop(party_lines, k + 1, candidate_name,
             Append(issues, Issue("party line must be a dictionary", candidate_name, "")),
             party_line_total, party_names)
    ELSE
    LET issues1 == IF party_line.party.t = "absent" \/ ~Truthy(party_line.party)
                   THEN Append(issues, Issue("party line missing 'party'", candidate_name, ""))
                   ELSE issues
    IN
    IF party_line.votes.t = "absent"
    THEN PartyLinesLoop(party_lines, k + 1, candidate_name,
             Append(issues1, Issue("party line missing 'votes'", candidate_name, "")),
             party_line_total, party_names)
    ELSE
    LET party_name == DictGet(party_line.party, "unknown")
        votes == party_line.votes
    IN
    IF ~Hashable(party_name)
    THEN [raised |-> TRUE, exc |-> "TypeError", issues |-> <<>>, party_line_total |-> 0]
    ELSE
    LET issues2 == IF party_name \in party_names
                   THEN Append(issues1, Issue("has duplicate party line", candidate_name,
                                              Format(party_name)))
                   ELSE issues1
        party_names2 == party_names \cup {party_name}
    IN
    IF ~IsNumeric(votes)
    THEN PartyLinesLoop(party_lines, k + 1, candidate_name,
             Append(issues2, Issue("party line votes must be numeric", candidate_name,
                                   Format(party_name))),
             party_line_total, party_names2)
    ELSE
    LET issues3 == IF votes.n < 0
                   THEN Append(issues2, Issue("party line has negative votes", candidate_name,
                                              Format(party_name)))
                   ELSE issues2
    IN PartyLinesLoop(party_lines, k + 1, candidate_name, issues3,
                      party_line_total + votes.n, party_names2)

\* Variant that also flags party lines that add up to exactly the total
validate_candidate_StrictSum(candidate, race_title) ==
    IF ~candidate.isdict
    THEN Returned(<<Issue("Candidate must be a dictionary", "", Format(race_title))>>)
    ELSE
    LET issues0 == IF candidate.name.t = "absent" \/ ~Truthy(candidate.name)
                   THEN <<Issue("Candidate missing or empty 'name'", "", Format(race_title))>>
                   ELSE <<>>
        candidate_name == Format(DictGet(candidate.name, "unknown"))
    IN
    IF candidate.total_votes.t = "absent"
    THEN Returned(Append(issues0, Issue("missing 'total_votes'", candidate_name, "")))
    ELSE
    LET total_votes == candidate.total_votes IN
    IF ~IsNumeric(total_votes)
    THEN Returned(Append(issues0, Issue("total_votes must be numeric", candidate_name, "")))
    ELSE
    LET issues1 == IF total_votes.n < 0
                   THEN Append(issues0, Issue("has negative votes", candidate_name, ""))
                   ELSE issues0
    IN
    IF candidate.party_lines_kind = "absent"
    THEN Returned(issues1)
    ELSE IF candidate.party_lines_kind # "list"
    THEN Returned(Append(issues1, Issue("party_lines must be a list", candidate_name, "")))
    ELSE
    LET loop == PartyLinesLoop(candidate.party_lines, 1, candidate_name, issues1, 0, {}) IN
    IF loop.raised
    THEN Raised(loop.exc)
    ELSE IF loop.party_line_total >= total_votes.n
    THEN Returned(Append(loop.issues,
                         Issue("party line total exceeds candidate total", candidate_name, "")))
    ELSE Returned(loop.issues)

\* validate_candidate (lines 98-172)
validate_candidate(candidate, race_title) ==
    IF ~candidate.isdict
    THEN Returned(<<Issue("Candidate must be a dictionary", "", Format(race_title))>>)
    ELSE
    LET issues0 == IF candidate.name.t = "absent" \/ ~Truthy(candidate.name)
                   THEN <<Issue("Candidate missing or empty 'name'", "", Format(race_title))>>
                   ELSE <<>>
        candidate_name == Format(DictGet(candidate.name, "unknown"))
    IN
    IF candidate.total_votes.t = "absent"
    THEN Returned(Append(issues0, Issue("missing 'total_votes'", candidate_name, "")))
    ELSE
    LET total_votes == candidate.total_votes IN
    IF ~IsNumeric(total_votes)
    THEN Returned(Append(issues0, Issue("total_votes must be numeric", candidate_name, "")))
    ELSE
    LET issues1 == IF total_votes.n < 0
                   THEN Append(issues0, Issue("has negative votes", candidate_name, ""))
                   ELSE issues0
    IN
    IF candidate.party_lines_kind = "absent"
    THEN Returned(issues1)
    ELSE IF candidate.party_lines_kind # "list"
    THEN Returned(Append(issues1, Issue("party_lines must be a list", candidate_name, "")))
    ELSE
    LET loop == PartyLinesLoop(candidate.party_lines, 1, candidate_name, issues1, 0, {}) IN
    IF loop.raised
    THEN Raised(loop.exc)
    ELSE IF loop.party_line_total > total_votes.n
    THEN Returned(Append(loop.issues,
                         Issue("party line total exceeds candidate total", candidate_name, "")))
    ELSE Returned(loop.issues)

\* The loop over candidates (lines 86-94), from index k on
RECURSIVE CandidatesLoop(_, _, _, _, _)
CandidatesLoop(candidates, k, race_title, issues, candidate_names) ==
    IF k > Len(candidates)
    THEN Returned(issues)
    ELSE
    LET candidate == candidates[k]
        candidate_issues == validate_candidate(candidate, race_title)
    IN
    IF candidate_issues.raised
    THEN candidate_issues
    ELSE IF ~candidate.isdict
    THEN Raised("AttributeError")            \* candidate.get on a non-dictionary
    ELSE
    LET candidate_name == DictGet(candidate.name, "") IN
    IF ~Hashable(candidate_name)
    THEN Raised("TypeError")                 \* unhashable value tested against a set
    ELSE
    LET issues1 == issues \o candidate_issues.issues
        issues2 == IF candidate_name \in candidate_names
                   THEN Append(issues1, Issue("Duplicate candidate", Format(candidate_name), ""))
                   ELSE issues1
    IN CandidatesLoop(candidates, k + 1, race_title, issues2,
                      candidate_names \cup {candidate_name})

validate_race(race) ==
    IF ~race.isdict
    THEN Returned(<<Issue("Race must be a dictionary", "", "")>>)
    ELSE
    LET issues0 == IF race.race_title.t = "absent" \/ ~Truthy(race.race_title)
                   THEN <<Issue("Missing or empty 'race_title'", "", "")>>
                   ELSE <<>>
    IN
    IF race.candidates_kind = "absent"
    THEN Returned(Append(issues0, Issue("Missing 'candidates' list", "", "")))
    ELSE IF race.candidates_kind # "list"
    THEN Returned(Append(issues0, Issue("'candidates' must be a list", "", "")))
    ELSE IF race.candidates = <<>>
    THEN Returned(Append(issues0, Issue("No candidates in race", "",
                                        Format(DictGet(race.race_title, "unknown")))))
    ELSE CandidatesLoop(race.candidates, 1, DictGet(race.race_title, "unknown"), issues0, {})

\* "Race {i}: {issue}" for every issue of race i
PrefixRace(i, race_issues) ==
    [j \in 1..Len(race_issues) |-> [race_issues[j] EXCEPT !.race = i]]

\* The loop over races (lines 43-52), from index k on (i = k - 1)
RECURSIVE RacesLoop(_, _, _, _)
RacesLoop(race_list, k, issues, race_titles) ==
    IF k > Len(race_list)
    THEN Returned(issues)
    ELSE
    LET race == race_list[k]
        race_issues == validate_race(race)
    IN
    IF race_issues.raised
    THEN race_issues
    ELSE IF ~race.isdict
    THEN Raised("AttributeError")            \* race.get on a non-dictionary
    ELSE
    LET race_title == DictGet(race.race_title, "") IN
    IF ~Hashable(race_title)
    THEN Raised("TypeError")
    ELSE
    LET issues1 == issues \o PrefixRace(k - 1, race_issues.issues)
        issues2 == IF race_title \in race_titles
                   THEN Append(issues1, [Issue("Duplicate race title", "", Format(race_title))
                                         EXCEPT !.race = k - 1])
                   ELSE issues1
    IN RacesLoop(race_list, k + 1, issues2, race_titles \cup {race_title})

\* validate_extraction without the 'if not races' test of lines 36-38
validate_extraction_NoEmptyTest(d) ==
    IF d.kind = "nondict"
    THEN Returned(<<Issue("Data must be a dictionary", "", "")>>)
    ELSE IF d.kind = "noraces"
    THEN Returned(<<Issue("Missing 'races' key in data", "", "")>>)
    ELSE IF d.kind # "list"
    THEN Returned(<<Issue("'races' must be a list", "", "")>>)
    ELSE RacesLoop(d.races, 1, <<>>, {})

validate_extraction(d) ==
    IF d.kind = "nondict"
    THEN Returned(<<Issue("Data must be a dictionary", "", "")>>)
    ELSE IF d.kind = "noraces"
    THEN Returned(<<Issue("Missing 'races' key in data", "", "")>>)
    ELSE IF d.kind # "list"
    THEN Returned(<<Issue("'races' must be a list", "", "")>>)
    ELSE IF d.races = <<>>
    THEN Returned(<<Issue("No races found in data", "", "")>>)
    ELSE RacesLoop(d.races, 1, <<>>, {})

\* No validate_extraction call has been made yet
Pending == [raised |-> FALSE, exc |-> "pending", issues |-> <<>>]

\* Python's None
None == [none |-> TRUE]

\* No parse invocation is part of the behaviour
ParseIdle ==
    /\ races = <<>>
    /\ current_race = None
    /\ current_candidate = None
    /\ in_race = FALSE
    /\ prev_line = <<>>
    /\ last_line = <<>>
    /\ nlines = 0
    /\ markers = 0
    /\ outcome = "idle"

\* The value a call has returned
Result(value) == [result |-> value]

\* No pure-function call and no concurrent invocation is part of the behaviour
AuxIdle ==
    /\ input = None
    /\ output = None
    /\ inv = <<>>

\* ------------------------------------------------------------------------
\* Text: a line is the sequence of its whitespace-delimited tokens (so
\* str.strip and str.split are structural); a line, name or title kept in a
\* record is the joined string
\* ------------------------------------------------------------------------
RECURSIVE JoinTokens(_)
JoinTokens(tokens) ==
    IF tokens = <<>> THEN ""
    ELSE IF Len(tokens) = 1 THEN tokens[1]
    ELSE tokens[1] \o " " \o JoinTokens(Tail(tokens))

\* int(token.replace(',', '')) for the tokens on which int() succeeds
IntVal ==
    ("0" :> 0) @@ ("1" :> 1) @@ ("2" :> 2) @@ ("3" :> 3) @@ ("4" :> 4) @@ ("5" :> 5) @@
    ("8" :> 8) @@ ("9" :> 9) @@ ("80" :> 80) @@ ("120" :> 120) @@
    ("1,504" :> 1504) @@ ("-3" :> -3)

\* int(token) raises ValueError on every other token
IntParses(token) == token \in DOMAIN IntVal

\* token.replace(',', '').isdigit(): decimal digits only, no sign
IsDigit(token) == IntParses(token) /\ IntVal[token] >= 0

\* str.lower() of the tokens that hold an upper-case letter; any other token
\* (digits, punctuation, lower-case words) is its own lower-case form
LowerTable ==
    ("Democratic" :> "democratic") @@ ("Republican" :> "republican") @@
    ("Conservative" :> "conservative") @@ ("Working" :> "working") @@
    ("Families" :> "families") @@ ("DEM" :> "dem") @@ ("REP" :> "rep") @@
    ("Jane" :> "jane") @@ ("Doe" :> "doe") @@ ("John" :> "john") @@
    ("Smith" :> "smith") @@ ("Sheriff" :> "sheriff") @@ ("Total" :> "total") @@
    ("TOTAL" :> "total") @@ ("Votes" :> "votes") @@ ("Cast" :> "cast") @@
    ("Ballots" :> "ballots") @@ ("Vote" :> "vote") @@ ("For" :> "for") @@
    ("Write-in" :> "write-in") @@ ("Under" :> "under") @@ ("Over" :> "over") @@
    ("YES" :> "yes") @@ ("NO" :> "no") @@ ("Yes" :> "yes") @@ ("No" :> "no") @@
    ("(Write-In)" :> "(write-in)") @@ ("(Write-in)" :> "(write-in)") @@
    ("Columbia" :> "columbia") @@ ("County" :> "county") @@
    ("Ulster" :> "ulster") @@ ("Dutchess" :> "dutchess") @@ ("Greene" :> "greene") @@
    ("Orange" :> "orange") @@ ("Sullivan" :> "sullivan") @@ ("Putnam" :> "putnam") @@
    ("Rockland" :> "rockland") @@ ("Westchester" :> "westchester") @@
    ("Albany" :> "albany") @@
    ("WFP" :> "wfp") @@ ("CON" :> "con") @@ ("IND" :> "ind") @@ ("OA" :> "oa") @@
    ("OT" :> "ot") @@ ("HR" :> "hr") @@ ("Roe" :> "roe") @@
    ("(DEM)" :> "(dem)") @@ ("(DEM," :> "(dem,") @@ ("WFP)" :> "wfp)")

LowerToken(token) == IF token \in DOMAIN LowerTable THEN LowerTable[token] ELSE token

\* token[0].isupper()
StartsUpper(token) ==
    /\ token \in DOMAIN LowerTable
    /\ token \notin {"(Write-In)", "(Write-in)", "(DEM)", "(DEM,"}

\* needle in line, for a needle made of whole tokens
ContainsPhrase(line, phrase) ==
    \E i \in 1..(Len(line) - Len(phrase) + 1) :
        SubSeq(line, i, i + Len(phrase) - 1) = phrase

\* line.startswith(prefix), for a prefix made of whole tokens
StartsWith(line, phrase) ==
    Len(line) >= Len(phrase) /\ SubSeq(line, 1, Len(phrase)) = phrase

\* ------------------------------------------------------------------------
\* parties.py
\* ------------------------------------------------------------------------
PARTY_ALIASES ==
    ("democratic" :> {"dem", "d", "democrat", "democrats"}) @@
    ("republican" :> {"rep", "r", "gop", "republicans"}) @@
    ("conservative" :> {"con", "c", "conservatives"}) @@
    ("working families" :> {"wfp", "wf", "working families party", "working"}) @@
    ("independence" :> {"ind", "i"}) @@
    ("green" :> {"gre", "g", "greens"}) @@
    ("libertarian" :> {"lib", "l", "libertarians"}) @@
    ("write-in" :> {"wri", "w", "write in", "writein"}) @@
    ("community 1st" :> {"community first", "community"}) @@
    ("larouche" :> {})

CANONICAL_PARTIES ==
    ("democratic" :> "Democratic") @@ ("republican" :> "Republican") @@
    ("conservative" :> "Conservative") @@ ("working families" :> "Working Families") @@
    ("independence" :> "Independence") @@ ("green" :> "Green") @@
    ("libertarian" :> "Libertarian") @@ ("write-in" :> "Write-In") @@
    ("community 1st" :> "Community 1st") @@ ("larouche" :> "LaRouche")

\* raw.strip().lower() of a phrase given by its tokens
NormalizedPhrase(tokens) ==
    JoinTokens([i \in 1..Len(tokens) |-> LowerToken(tokens[i])])

normalize_party(raw) ==
    LET normalized == NormalizedPhrase(raw) IN
    IF normalized \in DOMAIN CANONICAL_PARTIES THEN normalized
    ELSE IF \E canonical \in DOMAIN PARTY_ALIASES : normalized \in PARTY_ALIASES[canonical]
    THEN CHOOSE canonical \in DOMAIN PARTY_ALIASES : normalized \in PARTY_ALIASES[canonical]
    ELSE normalized

\* canonical is a lower-case string; str.title() of a string that is not a
\* canonical key capitalises each word, which no caller modelled here reaches
get_display_name(canonical) ==
    IF canonical \in DOMAIN CANONICAL_PARTIES THEN CANONICAL_PARTIES[canonical]
    ELSE "Title(" \o canonical \o ")"

is_known_party(party) ==
    LET normalized == NormalizedPhrase(party) IN
    \/ normalized \in DOMAIN CANONICAL_PARTIES
    \/ \E canonical \in DOMAIN PARTY_ALIASES : normalized \in PARTY_ALIASES[canonical]

\* ------------------------------------------------------------------------
\* parsers.py: StandardPDFParser
\* ------------------------------------------------------------------------
PartyLine(party, votes) == [party |-> party, votes |-> votes]
Candidate(name, party_lines, total_votes) ==
    [name |-> name, party_lines |-> party_lines, total_votes |-> total_votes]

\* The race dictionary opened at a 'Vote For N' marker (lines 131-140)
StandardRace(race_title, vote_for) ==
    [race_title |-> race_title, vote_for |-> vote_for, candidates |-> <<>>,
     write_in |-> 0, total_votes_cast |-> 0, under_votes |-> 0, over_votes |-> 0,
     total_ballots_cast |-> 0]

\* re.search(r'Vote For (\d+)', text): the matched number, or -1 for None
NoMatch == -1

Standard_extract_vote_for(line) ==
    IF \E i \in 1..(Len(line) - 2) :
           line[i] = "Vote" /\ line[i + 1] = "For" /\ IsDigit(line[i + 2])
    THEN LET i == CHOOSE i \in 1..(Len(line) - 2) :
                      /\ line[i] = "Vote" /\ line[i + 1] = "For" /\ IsDigit(line[i + 2])
                      /\ \A j \in 1..(i - 1) :
                             ~(line[j] = "Vote" /\ line[j + 1] = "For" /\ IsDigit(line[j + 2]))
         IN IntVal[line[i + 2]]
    ELSE NoMatch

Standard_is_header_line(line) ==
    \/ \E h \in {<<"Columbia", "County">>, <<"Dutchess", "County", "Summary">>,
                 <<"2025", "General", "Election">>, <<"Summary", "Results", "Report">>,
                 <<"Last", "Updated:">>} : ContainsPhrase(line, h)
    \/ StartsWith(line, <<"November", "04,", "2025">>)

\* One labelled summary field (lines 267-295): the label's tokens, the
\* minimal number of tokens, the field set.  int() of a non-numeric last
\* token raises ValueError.
SummaryField(line, race, minparts, field) ==
    IF Len(line) >= minparts
    THEN IF IntParses(line[Len(line)])
         THEN [matched |-> TRUE, exc |-> "",
               race |-> [race EXCEPT ![field] = IntVal[line[Len(line)]]]]
         ELSE [matched |-> TRUE, exc |-> "ValueError", race |-> race]
    ELSE [matched |-> TRUE, exc |-> "", race |-> race]

Standard_parse_summary_line(line, race) ==
    IF StartsWith(line, <<"Write-in">>)
    THEN SummaryField(line, race, 2, "write_in")
    ELSE IF StartsWith(line, <<"Total", "Votes", "Cast">>)
    THEN SummaryField(line, race, 4, "total_votes_cast")
    ELSE IF StartsWith(line, <<"Under", "Votes">>)
    THEN SummaryField(line, race, 3, "under_votes")
    ELSE IF StartsWith(line, <<"Over", "Votes">>)
    THEN SummaryField(line, race, 3, "over_votes")
    ELSE IF StartsWith(line, <<"Total", "Ballots", "Cast">>)
    THEN SummaryField(line, race, 4, "total_ballots_cast")
    ELSE [matched |-> FALSE, exc |-> "", race |-> race]

\* Variant that tries the one-word party only
Standard_parse_candidate_line_OneWordOnly(prefix, votes) ==
    LET tokens == prefix
        n == Len(tokens)
    IN
    IF n >= 2 /\ is_known_party(<<tokens[n]>>)
    THEN Candidate(JoinTokens(SubSeq(tokens, 1, n - 1)),
                   <<PartyLine(get_display_name(normalize_party(<<tokens[n]>>)), votes)>>,
                   votes)
    ELSE None

\* _parse_candidate_line: the candidate, or None
Standard_parse_candidate_line(prefix, votes) ==
    LET tokens == prefix
        n == Len(tokens)
    IN
    IF n >= 3 /\ is_known_party(SubSeq(tokens, n - 1, n))
    THEN Candidate(JoinTokens(SubSeq(tokens, 1, n - 2)),
                   <<PartyLine(get_display_name(normalize_party(SubSeq(tokens, n - 1, n))),
                               votes)>>,
                   votes)
    ELSE IF n >= 2 /\ is_known_party(<<tokens[n]>>)
    THEN Candidate(JoinTokens(SubSeq(tokens, 1, n - 1)),
                   <<PartyLine(get_display_name(normalize_party(<<tokens[n]>>)), votes)>>,
                   votes)
    ELSE None

\* The parser's locals as one value
ParseState(rs, cr, cc, ir, exc) ==
    [races |-> rs, current_race |-> cr, current_candidate |-> cc, in_race |-> ir,
     exc |-> exc]

AddCandidate(race, candidate) ==
    [race EXCEPT !.candidates = Append(@, candidate)]

\* Index of the last token "Total" of the line (line.rsplit('Total', 1))
LastTotal(line) ==
    CHOOSE i \in 1..Len(line) :
        line[i] = "Total" /\ \A j \in (i + 1)..Len(line) : line[j] # "Total"

LooksLikeName_ThreeTokens(tokens) ==
    Len(tokens) >= 3 /\ \A i \in 1..Len(tokens) : StartsUpper(tokens[i])

\* Line 236: the last resort, a prefix that looks like a name
LooksLikeName(tokens) ==
    Len(tokens) >= 2 /\ \A i \in 1..Len(tokens) : StartsUpper(tokens[i])

\* Lines 184-242: a line "text votes" inside a race
StandardVotesLine(st, line) ==
    LET prefix == SubSeq(line, 1, Len(line) - 1)
        votes_str == line[Len(line)]
    IN
    IF ~IsDigit(votes_str) THEN st
    ELSE
    LET votes == IntVal[votes_str] IN
    IF prefix \in {<<"YES">>, <<"NO">>, <<"Yes">>, <<"No">>}
    THEN [st EXCEPT !.current_race =
              AddCandidate(@, Candidate(JoinTokens(prefix), <<>>, votes))]
    ELSE IF \E i \in 1..Len(prefix) : prefix[i] \in {"(Write-In)", "(Write-in)"}
    THEN [st EXCEPT !.current_race =
              AddCandidate(@, Candidate(
                  JoinTokens(SelectSeq(prefix, LAMBDA t : t \notin {"(Write-In)", "(Write-in)"})),
                  <<>>, votes))]
    ELSE IF is_known_party(prefix)
    THEN LET cc == IF st.current_candidate = None
                   THEN Candidate("", <<>>, 0)
                   ELSE st.current_candidate
         IN [st EXCEPT !.current_candidate =
                 [cc EXCEPT !.party_lines =
                      Append(@, PartyLine(get_display_name(normalize_party(prefix)), votes))]]
    ELSE
    LET candidate_parsed == Standard_parse_candidate_line(prefix, votes) IN
    IF candidate_parsed # None
    THEN [st EXCEPT !.current_race = AddCandidate(@, candidate_parsed)]
    ELSE IF st.in_race /\ LooksLikeName(prefix)
    THEN [st EXCEPT !.current_race =
              AddCandidate(@, Candidate(JoinTokens(prefix), <<>>, votes))]
    ELSE st

EndsRace_Never(line) == FALSE

\* Line 156: the summary line that ends the race
EndsRace(line) == StartsWith(line, <<"Total", "Ballots", "Cast">>)

\* The body of the loop over lines (lines 112-242) for one raw line; prev is
\* lines[i - 1] of the page ('' when i = 0)
StandardLine(st, line, prev) ==
    IF line = <<>> \/ Standard_is_header_line(line) THEN st
    ELSE
    LET vote_for == Standard_extract_vote_for(line) IN
    IF vote_for # NoMatch
    THEN LET flush == st.current_race # None /\ st.current_candidate # None
             closed == IF flush THEN AddCandidate(st.current_race, st.current_candidate)
                       ELSE st.current_race
         IN ParseState(IF st.current_race # None THEN Append(st.races, closed) ELSE st.races,
                       StandardRace(JoinTokens(prev), vote_for),
                       IF flush THEN None ELSE st.current_candidate,
                       TRUE, "")
    ELSE IF ~st.in_race THEN st
    ELSE IF line = <<"TOTAL">> THEN st
    ELSE
    LET summary == Standard_parse_summary_line(line, st.current_race) IN
    IF summary.exc # ""
    THEN [st EXCEPT !.exc = summary.exc]
    ELSE IF summary.matched
    THEN ParseState(st.races,
                    IF st.current_candidate # None
                    THEN AddCandidate(summary.race, st.current_candidate)
                    ELSE summary.race,
                    None,
                    IF EndsRace(line) THEN FALSE ELSE st.in_race,
                    "")
    ELSE IF \E i \in 2..(Len(line) - 1) : line[i] = "Total"
    THEN LET k == LastTotal(line)
             name == JoinTokens(SubSeq(line, 1, k - 1))
             total_str == SubSeq(line, k + 1, Len(line))
         IN IF Len(total_str) = 1 /\ IntParses(total_str[1])
            THEN LET total == IntVal[total_str[1]]
                     candidate == IF st.current_candidate # None
                                  THEN [st.current_candidate EXCEPT
                                            !.name = name, !.total_votes = total]
                                  ELSE Candidate(name, <<>>, total)
                 IN [st EXCEPT !.current_race = AddCandidate(@, candidate),
                               !.current_candidate = None]
            ELSE st
    ELSE IF Len(line) >= 2
    THEN StandardVotesLine(st, line)
    ELSE st

StandardFinish_NoFlush(st) ==
    IF st.current_race # None THEN Append(st.races, st.current_race) ELSE st.races

\* Lines 244-250: the end of the document
StandardFinish(st) ==
    LET flush == st.current_race # None /\ st.current_candidate # None
        closed == IF flush THEN AddCandidate(st.current_race, st.current_candidate)
                  ELSE st.current_race
    IN IF st.current_race # None THEN Append(st.races, closed) ELSE st.races


\* ------------------------------------------------------------------------
\* Precinct tables.  A page is its detected race title ("" when none is
\* detected), whether extract_tables() found a table, the columns that the
\* header rows table[0], table[1] resolve to, and the rows table[2:].  A row
\* is its first cell (the label, as tokens) and its further cells: cells[i]
\* is row[i] for i >= 1, "" for an empty cell or None.
\* ------------------------------------------------------------------------
Column(index, name, party) == [index |-> index, name |-> name, party |-> party]
Row(label, cells) == [label |-> label, cells |-> cells]
Page(race_title, has_tables, columns, rows) ==
    [race_title |-> race_title, has_tables |-> has_tables, columns |-> columns, rows |-> rows]

\* needle in str(row[0]).upper(), for the label words of the reports
UpperContains(token, needle) ==
    \/ token = needle
    \/ <<token, needle>> \in {<<"Total", "TOTAL">>, <<"VOTES", "VOTE">>, <<"BALLOTS", "BALLOT">>,
                              <<"WRITE-IN", "WRITE">>, <<"WRITE-INS", "WRITE">>,
                              <<"TOTALS", "TOTAL">>}

LabelContains(label, needle) == \E i \in 1..Len(label) : UpperContains(label[i], needle)

\* row[col_idx] of a column, or "" when col_idx >= len(row)
Cell(row, col_idx) == IF col_idx <= Len(row.cells) THEN row.cells[col_idx] ELSE ""

\* A dict keyed by candidate name, in insertion order
HasName(cands, name) == \E k \in 1..Len(cands) : cands[k].name = name
IndexOfName(cands, name) == CHOOSE k \in 1..Len(cands) : cands[k].name = name

\* ------------------------------------------------------------------------
\* parsers.py: PrecinctTableParser._parse_races
\* ------------------------------------------------------------------------
\* Lines 1143-1160: the votes of one cell of a TOTAL row
AddTotalVotes(cands, name, party, votes) ==
    LET cs == IF HasName(cands, name) THEN cands ELSE Append(cands, Candidate(name, <<>>, 0))
        k == IndexOfName(cs, name)
    IN [cs EXCEPT ![k] = [@ EXCEPT
            !.party_lines = IF party # "" THEN Append(@, PartyLine(party, votes)) ELSE @,
            !.total_votes = @ + votes]]

\* Lines 1136-1160: the loop over the columns for one TOTAL row
RECURSIVE TotalRowColumns(_, _, _, _)
TotalRowColumns(cands, columns, j, row) ==
    IF j > Len(columns) THEN cands
    ELSE LET col == columns[j]
             votes_str == Cell(row, col.index)
         IN IF votes_str # "" /\ IsDigit(votes_str)
            THEN TotalRowColumns(AddTotalVotes(cands, col.name, col.party, IntVal[votes_str]),
                                 columns, j + 1, row)
            ELSE TotalRowColumns(cands, columns, j + 1, row)

\* The rows after a TOTAL row that are searched for summary fields, and the
\* cells of such a row that are searched for its value
SummaryWindow == 10
ValueCells == 5

\* Lines 1171-1178: the first numeric cell among row[1..4], or -1 for None
SummaryValue(row) ==
    LET idx == {c \in 1..(ValueCells - 1) : Cell(row, c) # "" /\ IsDigit(Cell(row, c))} IN
    IF idx = {} THEN NoMatch
    ELSE IntVal[Cell(row, CHOOSE c \in idx : \A d \in idx : c <= d)]

\* Lines 1163-1190: the summary rows after the TOTAL row rows[r]
RECURSIVE SummaryRows(_, _, _, _)
SummaryRows(race, rows, s, last) ==
    IF s > last THEN race
    ELSE LET summary_row == rows[s]
             label == summary_row.label
             value == SummaryValue(summary_row)
         IN IF label = <<>> \/ value = NoMatch
            THEN SummaryRows(race, rows, s + 1, last)
            ELSE SummaryRows(
                   IF LabelContains(label, "BLANK") THEN [race EXCEPT !.under_votes = value]
                   ELSE IF LabelContains(label, "VOID") THEN [race EXCEPT !.over_votes = value]
                   ELSE IF LabelContains(label, "SCATTERING") \/ LabelContains(label, "WRITE")
                   THEN [race EXCEPT !.write_in = value]
                   ELSE IF LabelContains(label, "TOTAL") /\ LabelContains(label, "VOTE")
                   THEN [race EXCEPT !.total_votes_cast = value]
                   ELSE IF LabelContains(label, "TOTAL") /\ LabelContains(label, "BALLOT")
                   THEN [race EXCEPT !.total_ballots_cast = value]
                   ELSE race,
                   rows, s + 1, last)

Min(a, b) == IF a <= b THEN a ELSE b

\* Lines 1129-1190: the loop over the rows table[2:], from rows[r] on
RECURSIVE PrecinctRows(_, _, _, _)
PrecinctRows(st, columns, rows, r) ==
    IF r > Len(rows) THEN st
    ELSE LET row == rows[r] IN
         IF row.label # <<>> /\ LabelContains(row.label, "TOTAL")
         THEN PrecinctRows(
                [st EXCEPT
                   !.candidate_totals = TotalRowColumns(@, columns, 1, row),
                   !.current_race = SummaryRows(@, rows, r + 1,
                                                Min(r + SummaryWindow - 1, Len(rows)))],
                columns, rows, r + 1)
         ELSE PrecinctRows(st, columns, rows, r + 1)

\* Lines 1102-1111: the race dictionary opened at a new title
PrecinctRace(race_title) == StandardRace(race_title, 1)

TableState(rs, cr, title, totals) ==
    [races |-> rs, current_race |-> cr, current_race_title |-> title,
     candidate_totals |-> totals]

\* Variant that opens a new race on every titled page
PrecinctPage_NewRaceEachPage(st, page) ==
    IF page.race_title = "" THEN st
    ELSE
    LET st1 == TableState(
                 IF st.current_race # None
                 THEN Append(st.races,
                             [st.current_race EXCEPT !.candidates = st.candidate_totals])
                 ELSE st.races,
                 PrecinctRace(page.race_title), page.race_title, <<>>)
    IN IF ~page.has_tables \/ page.rows = <<>> THEN st1
       ELSE PrecinctRows(st1, page.columns, page.rows, 1)

\* Lines 1085-1190: the body of the loop over pages for one page
PrecinctPage(st, page) ==
    IF page.race_title = "" THEN st
    ELSE
    LET st1 == IF st.current_race_title # page.race_title
               THEN TableState(
                      IF st.current_race # None
                      THEN Append(st.races,
                                  [st.current_race EXCEPT !.candidates = st.candidate_totals])
                      ELSE st.races,
                      PrecinctRace(page.race_title), page.race_title, <<>>)
               ELSE st
    IN IF ~page.has_tables \/ page.rows = <<>> THEN st1
       ELSE PrecinctRows(st1, page.columns, page.rows, 1)

\* Lines 1192-1197: the end of the document
PrecinctFinish(st) ==
    IF st.current_race # None
    THEN Append(st.races, [st.current_race EXCEPT !.candidates = st.candidate_totals])
    ELSE st.races

\* ------------------------------------------------------------------------
\* extract_westchester_summary.py
\* ------------------------------------------------------------------------
\* parse_westchester_table, lines 74-86: the precinct rows of table[2:]
precinct_rows(rows) ==
    SelectSeq(rows, LAMBDA row : row.label # <<>> /\ ~LabelContains(row.label, "TOTAL"))

\* Variant that appends a party line for every cell
AddPrecinctVotes_AlwaysAppend(cands, name, party, votes) ==
    LET cs == IF HasName(cands, name) THEN cands ELSE Append(cands, Candidate(name, <<>>, 0))
        k == IndexOfName(cs, name)
    IN [cs EXCEPT ![k] = [@ EXCEPT
            !.party_lines = Append(@, PartyLine(party, votes)),
            !.total_votes = @ + votes]]

\* Lines 187-212: the votes of one cell of a precinct row
AddPrecinctVotes(cands, name, party, votes) ==
    LET cs == IF HasName(cands, name) THEN cands ELSE Append(cands, Candidate(name, <<>>, 0))
        k == IndexOfName(cs, name)
        pls == cs[k].party_lines
        found == {j \in 1..Len(pls) : pls[j].party = party}
    IN [cs EXCEPT ![k] = [@ EXCEPT
            !.party_lines =
                IF found # {}
                THEN [pls EXCEPT ![CHOOSE j \in found : \A m \in found : j <= m].votes = @ + votes]
                ELSE Append(pls, PartyLine(party, votes)),
            !.total_votes = @ + votes]]

\* Lines 176-212: the loop over the columns for one precinct row
RECURSIVE PrecinctRowColumns(_, _, _, _)
PrecinctRowColumns(cands, columns, j, row) ==
    IF j > Len(columns) THEN cands
    ELSE LET col == columns[j]
             votes_str == Cell(row, col.index)
         IN IF votes_str # "" /\ IsDigit(votes_str)
            THEN PrecinctRowColumns(
                     AddPrecinctVotes(cands, col.name, col.party, IntVal[votes_str]),
                     columns, j + 1, row)
            ELSE PrecinctRowColumns(cands, columns, j + 1, row)

\* Lines 175-212: the loop over the precinct rows
RECURSIVE AggregateRows(_, _, _, _)
AggregateRows(cands, columns, rows, r) ==
    IF r > Len(rows) THEN cands
    ELSE AggregateRows(PrecinctRowColumns(cands, columns, 1, rows[r]), columns, rows, r + 1)

\* races[title] = race_data on a dict kept in insertion order
DictSet(d, key, value) ==
    IF \E k \in 1..Len(d) : d[k].key = key
    THEN [d EXCEPT ![CHOOSE k \in 1..Len(d) : d[k].key = key].value = value]
    ELSE Append(d, [key |-> key, value |-> value])

SummaryState(rs, title, race_data) ==
    [races |-> rs, current_race_title |-> title, current_race_data |-> race_data]

\* Lines 215-216 and 148-149: the current race is saved if it has candidates
SaveRace(st) ==
    IF st.current_race_data # None /\ st.current_race_data.candidates # <<>>
    THEN DictSet(st.races, st.current_race_title, st.current_race_data)
    ELSE st.races

\* Lines 152-161: the race dictionary opened at a new title
SummaryRace(race_title) == StandardRace(race_title, 1)

\* Lines 134-212: the body of the loop over pages for one page
SummaryPage(st, page) ==
    IF page.race_title = "" THEN st
    ELSE
    LET st1 == IF page.race_title # st.current_race_title
               THEN SummaryState(SaveRace(st), page.race_title, SummaryRace(page.race_title))
               ELSE st
        rows == precinct_rows(page.rows)
    IN IF ~page.has_tables \/ page.rows = <<>> \/ page.columns = <<>> \/ rows = <<>>
       THEN st1
       ELSE [st1 EXCEPT !.current_race_data.candidates =
                 AggregateRows(@, page.columns, rows, 1)]

\* Lines 214-222: the last race is saved and the dict converted to a list
SummaryFinish(st) ==
    LET rs == SaveRace(st) IN [k \in 1..Len(rs) |-> rs[k].value]

\* ------------------------------------------------------------------------
\* registry.py: HUDSON_VALLEY_COUNTIES ("" stands for None; the key
\* election_date is absent until process_county stores it)
\* ------------------------------------------------------------------------
County(name, source_type, results_url, local_pdf, format) ==
    [name |-> name, source_type |-> source_type, results_url |-> results_url,
     local_pdf |-> local_pdf, format |-> format, election_date |-> ""]

HUDSON_VALLEY_COUNTIES ==
    ("ulster" :> County("Ulster", "html",
        "https://elections.ulstercountyny.gov/election-results/2025-11-05-official.html",
        "", "bootstrap_html")) @@
    ("columbia" :> County("Columbia", "pdf", "",
        "data/Summary Results with Candidate Totals_41b03cbb-9244-4b14-b023-a0fdb76110d9.PDF",
        "standard_pdf")) @@
    ("dutchess" :> County("Dutchess", "pdf", "", "data/dutchess-2025-results.pdf",
        "standard_pdf")) @@
    ("greene" :> County("Greene", "pdf", "", "data/Official-GE25.pdf", "contest_overview")) @@
    ("orange" :> County("Orange", "pdf",
        "https://www.orangecountygov.com/DocumentCenter/View/32244",
        "data/raw/orange_2024-11-05.pdf", "canvass")) @@
    ("sullivan" :> County("Sullivan", "pdf", "", "", "unknown")) @@
    ("putnam" :> County("Putnam", "pdf",
        "http://boe.putnamcountyny.gov/wp-content/uploads/2024/12/2024-GENERAL-ELECTION-RESULTS-CERTIFIED-WEBSITE.pdf",
        "", "standard")) @@
    ("rockland" :> County("Rockland", "pdf", "", "", "unknown")) @@
    ("westchester" :> County("Westchester", "pdf",
        "https://citizenparticipation.westchestergov.com/images/stories/pdfs/2024/canvass-general-241105.pdf",
        "", "canvass")) @@
    ("albany" :> County("Albany", "pdf", "", "", "unknown"))

\* ------------------------------------------------------------------------
\* parsers.py: get_parser (the class of the parser instance returned)
\* ------------------------------------------------------------------------
get_parser(county_config) ==
    LET format_type == county_config.format IN
    IF format_type = "contest_overview" THEN "GreenePDFParser"
    ELSE IF format_type = "bootstrap_html" THEN "HTMLParser"
    ELSE IF format_type = "canvass" THEN "CanvassPDFParser"
    ELSE IF format_type = "precinct_table" THEN "PrecinctTableParser"
    ELSE "StandardPDFParser"

\* ------------------------------------------------------------------------
\* fetch_results.py
\* ------------------------------------------------------------------------
\* fetch_source: the source identifier, or "" for None.  available tells
\* whether the local file exists, respectively whether the download succeeds.
\* datetime.now().strftime("%Y%m%d_%H%M%S") of the run
Timestamp == "20251104_120000"

fetch_source(county_config, dryrun, available) ==
    IF county_config.source_type = "html"
    THEN county_config.results_url
    ELSE IF county_config.source_type = "pdf"
    THEN IF county_config.local_pdf # ""
         THEN IF available THEN county_config.local_pdf ELSE ""
         ELSE IF county_config.results_url # ""
         THEN IF dryrun THEN county_config.results_url
              ELSE IF available
              THEN "data/" \o LowerToken(county_config.name) \o "_" \o Timestamp \o ".pdf"
              ELSE ""
         ELSE ""
    ELSE ""

\* No table parse or aggregation is part of the behaviour
TableIdle ==
    /\ current_race_title = ""
    /\ candidate_totals = <<>>
    /\ current_race_data = None
    /\ races_list = <<>>
    /\ doc = <<>>

\* No process_county call is part of the behaviour
CountyIdle ==
    /\ registry = HUDSON_VALLEY_COUNTIES
    /\ county_id = ""
    /\ election_date = ""
    /\ dry_run = FALSE
    /\ force = FALSE
    /\ pc = "idle"
    /\ source = ""
    /\ parser = "none"
    /\ saved = FALSE
    /\ returned = "pending"

\* ------------------------------------------------------------------------
\* Specification of the validator: validate_extraction applied to an
\* arbitrary argument
\* ------------------------------------------------------------------------
PartyLineValues ==
    {NonDictPartyLine} \cup
    {DictPartyLine(p, v) : p \in {PyStr("Democratic")}, v \in {PyInt(-1), PyInt(2)}} \cup
    {DictPartyLine(PyList, PyInt(2))}

CandidateValues ==
    {NonDictCandidate} \cup
    {DictCandidate(nm, tv, "list", pls) :
        nm \in {PyStr("A"), PyList}, tv \in {PyInt(-1), PyInt(1)},
        pls \in SeqUpTo(PartyLineValues, MaxPartyLines)}

RaceValues ==
    {NonDictRace} \cup
    {DictRace(rt, "list", cs) :
        rt \in {PyStr("Sheriff"), PyList},
        cs \in SeqUpTo(CandidateValues, MaxCandidates)}

DataValues ==
    {Data("nondict", <<>>), Data("noraces", <<>>), Data("nonlist", <<>>)} \cup
    {Data("list", rs) : rs \in SeqUpTo(RaceValues, MaxRaces)}

InitValidate ==
    /\ data \in DataValues
    /\ validation = Pending
    /\ ParseIdle
    /\ TableIdle
    /\ CountyIdle
    /\ AuxIdle

Validate ==
    /\ outcome = "idle"
    /\ validation = Pending
    /\ validation' = validate_extraction(data)
    /\ UNCHANGED <<data, parseVars, tableVars, countyVars, auxVars>>

NextValidate == Validate

SpecValidate == InitValidate /\ [][NextValidate]_vars

\* ------------------------------------------------------------------------
\* parser output as the argument of validate_extraction (parse() returns
\* {'county', 'election_date', 'races': races}; fetch_results.py:168-179)
\* ------------------------------------------------------------------------
PartyLineEntry(pl) == DictPartyLine(PyStr(pl.party), PyInt(pl.votes))

CandidateEntry(c) ==
    DictCandidate(PyStr(c.name), PyInt(c.total_votes), "list",
                  [j \in 1..Len(c.party_lines) |-> PartyLineEntry(c.party_lines[j])])

RaceEntry(r) ==
    DictRace(PyStr(r.race_title), "list",
             [k \in 1..Len(r.candidates) |-> CandidateEntry(r.candidates[k])])

ParseResult(rs) == Data("list", [i \in 1..Len(rs) |-> RaceEntry(rs[i])])

NoData == Data("none", <<>>)

\* ------------------------------------------------------------------------
\* Specification of StandardPDFParser: one parse invocation over a document
\* read line by line, then validate_extraction of its result
\* ------------------------------------------------------------------------
MaxLines == 4

StandardLines ==
    { <<>>,
      <<"Columbia", "County">>,
      <<"Sheriff">>,
      <<"Vote", "For", "1">>,
      <<"Democratic", "5">>,
      <<"Republican", "3">>,
      <<"Jane", "Doe", "Total", "8">>,
      <<"Jane", "Doe", "Democratic", "5">>,
      <<"John", "Smith", "4">>,
      <<"Total", "Votes", "Cast", "9">>,
      <<"Total", "Votes", "Cast", "n/a">>,
      <<"Write-in", "pending">>,
      <<"Total", "Ballots", "Cast", "9">> }

\* A race marker of the standard format: a line holding 'Vote For <digits>'
IsStandardMarker(line) ==
    \E i \in 1..(Len(line) - 2) :
        line[i] = "Vote" /\ line[i + 1] = "For" /\ IsDigit(line[i + 2])

InitStandard ==
    /\ data = NoData
    /\ validation = Pending
    /\ races = <<>>
    /\ current_race = None
    /\ current_candidate = None
    /\ in_race = FALSE
    /\ prev_line = <<>>
    /\ last_line = <<>>
    /\ nlines = 0
    /\ markers = 0
    /\ outcome = "running"
    /\ TableIdle
    /\ CountyIdle
    /\ AuxIdle

\* One iteration of the loop over the lines of a page
StandardReadLine(line) ==
    /\ outcome = "running"
    /\ nlines < MaxLines
    /\ LET st == StandardLine(ParseState(races, current_race, current_candidate, in_race, ""),
                              line, prev_line)
       IN IF st.exc # ""
          THEN /\ outcome' = "raised"
               /\ UNCHANGED <<races, current_race, current_candidate, in_race>>
          ELSE /\ races' = st.races
               /\ current_race' = st.current_race
               /\ current_candidate' = st.current_candidate
               /\ in_race' = st.in_race
               /\ UNCHANGED outcome
    /\ prev_line' = line
    /\ last_line' = line
    /\ nlines' = nlines + 1
    /\ markers' = IF IsStandardMarker(line) THEN markers + 1 ELSE markers
    /\ UNCHANGED <<valVars, tableVars, countyVars, auxVars>>

\* The loop over pages moves to the next page: enumerate(lines) restarts
StandardNextPage ==
    /\ outcome = "running"
    /\ prev_line # <<>>
    /\ prev_line' = <<>>
    /\ UNCHANGED <<valVars, races, current_race, current_candidate, in_race, last_line, nlines,
                   markers, outcome, tableVars, countyVars, auxVars>>

\* The document ends: the final race is saved and the list returned
StandardReturn ==
    /\ outcome = "running"
    /\ races' = StandardFinish(ParseState(races, current_race, current_candidate, in_race, ""))
    /\ outcome' = "returned"
    /\ UNCHANGED <<valVars, current_race, current_candidate, in_race, prev_line, last_line, nlines,
                   markers, tableVars, countyVars, auxVars>>

\* process_county validates the parse result
ValidateResult ==
    /\ outcome = "returned"
    /\ validation = Pending
    /\ data' = ParseResult(races)
    /\ validation' = validate_extraction(ParseResult(races))
    /\ UNCHANGED <<parseVars, tableVars, countyVars, auxVars>>

NextStandard ==
    \/ \E line \in StandardLines : StandardReadLine(line)
    \/ StandardNextPage
    \/ StandardReturn
    \/ ValidateResult

SpecStandard == InitStandard /\ [][NextStandard]_vars

\* ------------------------------------------------------------------------
\* Specification of process_county: one call, step by step
\* ------------------------------------------------------------------------
\* What parser.parse may do on the fetched source: return a race list or raise
SampleCandidate == Candidate("Jane Doe", <<PartyLine("Democratic", 5), PartyLine("Republican", 3)>>, 8)

SampleRaceLists ==
    { <<>>,
      <<AddCandidate(StandardRace("Sheriff", 1), SampleCandidate)>>,
      <<AddCandidate(AddCandidate(StandardRace("Sheriff", 1), SampleCandidate), SampleCandidate)>> }

InitCounty ==
    /\ registry = HUDSON_VALLEY_COUNTIES
    /\ county_id \in DOMAIN HUDSON_VALLEY_COUNTIES \cup {"nassau"}
    /\ election_date \in {"2024-11-05", "2025-11-04"}
    /\ dry_run \in BOOLEAN
    /\ force \in BOOLEAN
    /\ pc = "get_county"
    /\ source = ""
    /\ parser = "none"
    /\ saved = FALSE
    /\ returned = "pending"
    /\ data = NoData
    /\ validation = Pending
    /\ ParseIdle
    /\ TableIdle
    /\ AuxIdle

\* Lines 141-148: registry lookup (KeyError is caught: return False) and the
\* election date stored in the entry
GetCounty ==
    /\ pc = "get_county"
    /\ IF county_id \in DOMAIN registry
       THEN /\ registry' = [registry EXCEPT ![county_id].election_date = election_date]
            /\ pc' = "fetch_source"
            /\ UNCHANGED returned
       ELSE /\ returned' = "False"
            /\ pc' = "done"
            /\ UNCHANGED registry
    /\ UNCHANGED <<county_id, election_date, dry_run, force, source, parser, saved,
                   valVars, parseVars, tableVars, auxVars>>

\* Lines 150-160
FetchSource ==
    /\ pc = "fetch_source"
    /\ \E available \in BOOLEAN :
           /\ source' = fetch_source(registry[county_id], dry_run, available)
           /\ IF source' = ""
              THEN returned' = "False" /\ pc' = "done"
              ELSE IF dry_run
              THEN returned' = "True" /\ pc' = "done"
              ELSE pc' = "get_parser" /\ UNCHANGED returned
    /\ UNCHANGED <<registry, county_id, election_date, dry_run, force, parser, saved,
                   valVars, parseVars, tableVars, auxVars>>

\* Lines 162-164
GetParser ==
    /\ pc = "get_parser"
    /\ parser' = get_parser(registry[county_id])
    /\ pc' = "parse"
    /\ UNCHANGED <<registry, county_id, election_date, dry_run, force, source, saved,
                   returned, valVars, parseVars, tableVars, auxVars>>

\* Lines 166-175: parser.parse returns the results ...
ParseReturns(rs) ==
    /\ pc = "parse"
    /\ data' = ParseResult(rs)
    /\ pc' = "validate"
    /\ UNCHANGED <<registry, county_id, election_date, dry_run, force, source, parser,
                   saved, returned, validation, parseVars, tableVars, auxVars>>

\* ... or raises, which the except clauses of lines 216-228 turn into False
ParseRaises ==
    /\ pc = "parse"
    /\ returned' = "False"
    /\ pc' = "done"
    /\ UNCHANGED <<registry, county_id, election_date, dry_run, force, source, parser,
                   saved, valVars, parseVars, tableVars, auxVars>>

ValidationBlocks_Never(issues, forced) == FALSE

\* Lines 181-190: issues end the run with False unless --force is given
ValidationBlocks(issues, forced) == issues # <<>> /\ ~forced

\* Lines 177-214: validation, the force override, the output file
ValidateAndSave ==
    /\ pc = "validate"
    /\ validation' = validate_extraction(data)
    /\ IF validation'.raised
       THEN returned' = "False" /\ UNCHANGED saved
       ELSE IF ValidationBlocks(validation'.issues, force)
       THEN returned' = "False" /\ UNCHANGED saved
       ELSE returned' = "True" /\ saved' = TRUE
    /\ pc' = "done"
    /\ UNCHANGED <<registry, county_id, election_date, dry_run, force, source, parser,
                   data, parseVars, tableVars, auxVars>>

NextCounty ==
    \/ GetCounty
    \/ FetchSource
    \/ GetParser
    \/ \E rs \in SampleRaceLists : ParseReturns(rs)
    \/ ParseRaises
    \/ ValidateAndSave

SpecCounty == InitCounty /\ [][NextCounty]_vars

\* ------------------------------------------------------------------------
\* Specification of PrecinctTableParser: one parse invocation over a
\* document read page by page
\* ------------------------------------------------------------------------
MaxPages == 3

PrecinctColumns ==
    <<Column(1, "JANE DOE", "Democratic"), Column(2, "JOHN ROE", "Republican")>>

PrecinctTables ==
    { \* two precinct rows, no TOTAL row
      Page("", TRUE, PrecinctColumns,
           <<Row(<<"ED", "1">>, <<"5", "3">>), Row(<<"ED", "2">>, <<"3", "5">>)>>),
      \* a precinct row, a TOTAL row and a summary row
      Page("", TRUE, PrecinctColumns,
           <<Row(<<"ED", "1">>, <<"5", "3">>), Row(<<"TOTAL">>, <<"5", "3">>),
             Row(<<"BLANK">>, <<"1", "">>)>>),
      \* a TOTAL row followed by the summary rows of the report
      Page("", TRUE, PrecinctColumns,
           <<Row(<<"TOTAL">>, <<"5", "3">>), Row(<<"BLANK">>, <<"1", "">>),
             Row(<<"TOTAL", "VOTES">>, <<"8", "">>), Row(<<"TOTAL", "BALLOTS">>, <<"9", "">>)>>),
      \* a summary row SummaryWindow rows after the TOTAL row
      Page("", TRUE, PrecinctColumns,
           <<Row(<<"TOTAL">>, <<"5", "3">>)>> \o [k \in 1..(SummaryWindow - 1) |-> Row(<<>>, <<"", "">>)]
             \o <<Row(<<"VOID">>, <<"1", "">>)>>),
      \* a page without a table
      Page("", FALSE, <<>>, <<>>) }

PrecinctTitles == {"PRESIDENT", "COUNTY CLERK"}

PrecinctPages ==
    {[t EXCEPT !.race_title = title] : t \in PrecinctTables, title \in PrecinctTitles} \cup
    {Page("", TRUE, PrecinctColumns, <<Row(<<"TOTAL">>, <<"5", "3">>)>>)}

InitPrecinct ==
    /\ races = <<>>
    /\ current_race = None
    /\ current_race_title = ""
    /\ candidate_totals = <<>>
    /\ doc = <<>>
    /\ outcome = "running"
    /\ current_race_data = None
    /\ races_list = <<>>
    /\ current_candidate = None
    /\ in_race = FALSE
    /\ prev_line = <<>>
    /\ last_line = <<>>
    /\ nlines = 0
    /\ markers = 0
    /\ data = NoData
    /\ validation = Pending
    /\ CountyIdle
    /\ AuxIdle

\* One iteration of the loop over pages
PrecinctReadPage(page) ==
    /\ outcome = "running"
    /\ Len(doc) < MaxPages
    /\ LET st == PrecinctPage(TableState(races, current_race, current_race_title,
                                         candidate_totals), page)
       IN /\ races' = st.races
          /\ current_race' = st.current_race
          /\ current_race_title' = st.current_race_title
          /\ candidate_totals' = st.candidate_totals
    /\ doc' = Append(doc, page)
    /\ UNCHANGED <<outcome, current_race_data, races_list, current_candidate, in_race,
                   prev_line, last_line, nlines, markers, valVars, countyVars, auxVars>>

\* The document ends: the final race is saved and the list returned
PrecinctReturn ==
    /\ outcome = "running"
    /\ races' = PrecinctFinish(TableState(races, current_race, current_race_title,
                                          candidate_totals))
    /\ outcome' = "returned"
    /\ UNCHANGED <<current_race, current_race_title, candidate_totals, doc,
                   current_race_data, races_list, current_candidate, in_race,
                   prev_line, last_line, nlines, markers, valVars, countyVars, auxVars>>

NextPrecinct ==
    \/ \E page \in PrecinctPages : PrecinctReadPage(page)
    \/ PrecinctReturn

SpecPrecinct == InitPrecinct /\ [][NextPrecinct]_vars

\* ------------------------------------------------------------------------
\* Specification of extract_westchester_summary.main: the aggregation of a
\* document read page by page
\* ------------------------------------------------------------------------
SummaryTables ==
    { \* one candidate column, two precinct rows
      Page("", TRUE, <<Column(1, "Jane Doe", "Democratic")>>,
           <<Row(<<"ED", "1">>, <<"120">>), Row(<<"ED", "2">>, <<"80">>)>>),
      \* a fusion candidate, an empty and a non-numeric cell, a TOTAL row and a
      \* row without a label
      Page("", TRUE,
           <<Column(1, "Jane Doe", "Democratic"), Column(2, "Jane Doe", "Working Families"),
             Column(3, "John Roe", "Republican")>>,
           <<Row(<<"ED", "3">>, <<"5", "3", "8">>), Row(<<"ED", "4">>, <<"3", "", "n/a">>),
             Row(<<"TOTAL", "OF", "TOWNS">>, <<"9", "9", "9">>),
             Row(<<>>, <<"9", "9", "9">>)>>),
      \* a page without a table
      Page("", FALSE, <<>>, <<>>) }

SummaryTitles == {"PRESIDENT", "COUNTY CLERK"}

SummaryPages ==
    {[t EXCEPT !.race_title = title] : t \in SummaryTables, title \in SummaryTitles} \cup
    {Page("", TRUE, <<Column(1, "Jane Doe", "Democratic")>>, <<Row(<<"ED", "1">>, <<"120">>)>>)}

InitSummary ==
    /\ races = <<>>
    /\ current_race_title = ""
    /\ current_race_data = None
    /\ races_list = <<>>
    /\ doc = <<>>
    /\ outcome = "running"
    /\ current_race = None
    /\ candidate_totals = <<>>
    /\ current_candidate = None
    /\ in_race = FALSE
    /\ prev_line = <<>>
    /\ last_line = <<>>
    /\ nlines = 0
    /\ markers = 0
    /\ data = NoData
    /\ validation = Pending
    /\ CountyIdle
    /\ AuxIdle

\* One iteration of the loop over pages
SummaryReadPage(page) ==
    /\ outcome = "running"
    /\ Len(doc) < MaxPages
    /\ LET st == SummaryPage(SummaryState(races, current_race_title, current_race_data), page)
       IN /\ races' = st.races
          /\ current_race_title' = st.current_race_title
          /\ current_race_data' = st.current_race_data
    /\ doc' = Append(doc, page)
    /\ UNCHANGED <<outcome, races_list, current_race, candidate_totals, current_candidate,
                   in_race, prev_line, last_line, nlines, markers, valVars, countyVars, auxVars>>

\* The document ends: the final race is saved, the dict becomes the list
SummaryReturn ==
    /\ outcome = "running"
    /\ races' = SaveRace(SummaryState(races, current_race_title, current_race_data))
    /\ races_list' = SummaryFinish(SummaryState(races, current_race_title, current_race_data))
    /\ outcome' = "returned"
    /\ UNCHANGED <<current_race_title, current_race_data, doc, current_race,
                   candidate_totals, current_candidate, in_race, prev_line, last_line, nlines,
                   markers, valVars, countyVars, auxVars>>

NextSummary ==
    \/ \E page \in SummaryPages : SummaryReadPage(page)
    \/ SummaryReturn

SpecSummary == InitSummary /\ [][NextSummary]_vars

\* ---- C1 ---------------------------------------------------------------
\* C1: validate_extraction returns a list of issues and never raises, for
\* any input value.
C1_NeverRaises == validation # Pending => ~validation.raised

\* ---- C2 ---------------------------------------------------------------
\* A candidate entry with a negative total, a negative party line, or party
\* lines summing to more than its total
NumericVotes(pls) ==
    [j \in 1..Len(pls) |->
        IF pls[j].isdict /\ IsNumeric(pls[j].votes) THEN pls[j].votes.n ELSE 0]

HasBadVotes(c) ==
    /\ c.isdict
    /\ IsNumeric(c.total_votes)
    /\ \/ c.total_votes.n < 0
       \/ \E j \in 1..Len(c.party_lines) :
              /\ c.party_lines[j].isdict
              /\ IsNumeric(c.party_lines[j].votes)
              /\ c.party_lines[j].votes.n < 0
       \/ SumSeq(NumericVotes(c.party_lines)) > c.total_votes.n

\* C2: for every race list in which some candidate has a negative total, a
\* negative party line or party lines exceeding its total, validate_extraction
\* returns (does not raise) an issue list with an issue naming that candidate.
C2_BadVotesReported ==
    validation # Pending =>
        \A i \in 1..Len(data.races) :
            \A k \in 1..Len(data.races[i].candidates) :
                LET c == data.races[i].candidates[k] IN
                (HasBadVotes(c) /\ c.name.t = "str") =>
                    /\ ~validation.raised
                    /\ \E j \in 1..Len(validation.issues) :
                           validation.issues[j].cand = c.name.s

\* ---- C3 ---------------------------------------------------------------
\* C3: a document in which no line is a race marker parses to an empty race
\* list without raising, and validate_extraction of that result returns
\* (does not raise) the issue that no races were found.
C3_NoMarkersNoRaces ==
    markers = 0 =>
        /\ outcome # "raised"
        /\ outcome = "returned" => races = <<>>
        /\ validation # Pending =>
               /\ ~validation.raised
               /\ \E j \in 1..Len(validation.issues) :
                      validation.issues[j].kind = "No races found in data"

\* a document of at least two marker-free lines was parsed and validated
C3_Witness ==
    /\ markers = 0
    /\ nlines >= 2
    /\ outcome = "returned"
    /\ validation # Pending

\* ---- C4 ---------------------------------------------------------------
PartyLineSum(c) == SumSeq([j \in 1..Len(c.party_lines) |-> c.party_lines[j].votes])

\* C4: for every candidate of every emitted race, the sum of its party-line
\* votes does not exceed its total_votes.
C4_PartySumWithinTotal ==
    outcome = "returned" =>
        \A i \in 1..Len(races) : \A k \in 1..Len(races[i].candidates) :
            PartyLineSum(races[i].candidates[k]) <= races[i].candidates[k].total_votes

\* ---- C5 ---------------------------------------------------------------
\* C5: no two candidates of an emitted race have the same name.
C5_UniqueCandidateNames ==
    outcome = "returned" =>
        \A i \in 1..Len(races) : \A k, m \in 1..Len(races[i].candidates) :
            races[i].candidates[k].name = races[i].candidates[m].name => k = m

\* ---- C7 ---------------------------------------------------------------
\* A line that matches a summary label but carries a non-numeric count
NonNumericCountLines ==
    {line \in StandardLines :
        /\ Len(line) >= 2
        /\ \/ StartsWith(line, <<"Write-in">>)
           \/ StartsWith(line, <<"Total", "Votes", "Cast">>)
           \/ StartsWith(line, <<"Total", "Ballots", "Cast">>)
        /\ ~IntParses(line[Len(line)])}

\* C7: a line that matches a summary label but carries a non-numeric count is
\* skipped: no exception propagates, parsing goes on and the open race is
\* left unchanged by that line.
C7_BadCountLineSkipped ==
    [][\A line \in NonNumericCountLines :
           StandardReadLine(line) => (outcome' = "running" /\ current_race' = current_race)]_vars

\* ---- C6 ---------------------------------------------------------------
\* The formats for which get_parser has a parsing strategy
SupportedFormats ==
    {"contest_overview", "bootstrap_html", "canvass", "precinct_table", "standard_pdf"}

\* C6: get_parser hands process_county a parser only when the county's format
\* is one of the supported formats; for any other format ('unknown',
\* 'standard') it fails, so no parser is ever in use for such a county.
C6_UnsupportedFormatRejected ==
    parser # "none" => registry[county_id].format \in SupportedFormats

\* ---- documents as sequences of pages ------------------------------------
\* The pages on which a race title is detected
TitledPages(pages) == SelectSeq(pages, LAMBDA p : p.race_title # "")

AllTitled(pages) == \A n \in 1..Len(pages) : pages[n].race_title # ""

\* The maximal runs of consecutive pages with the same title, in page order
RECURSIVE Runs(_)
Runs(pages) ==
    IF pages = <<>> THEN <<>>
    ELSE LET rest == Runs(Tail(pages)) IN
         IF rest # <<>> /\ Head(rest)[1].race_title = Head(pages).race_title
         THEN <<(<<Head(pages)>> \o Head(rest))>> \o Tail(rest)
         ELSE <<(<<Head(pages)>>)>> \o rest

\* The last run of the titled pages: the pages of the race being consumed
CurrentRun(pages) ==
    LET rs == Runs(TitledPages(pages)) IN IF rs = <<>> THEN <<>> ELSE rs[Len(rs)]

\* A precinct's vote row: first cell non-empty and without 'TOTAL'
IsPrecinctRow(row) == row.label # <<>> /\ ~LabelContains(row.label, "TOTAL")

NumericCell(row, col) == Cell(row, col.index) # "" /\ IsDigit(Cell(row, col.index))

CellVotes(row, col) == IF NumericCell(row, col) THEN IntVal[Cell(row, col.index)] ELSE 0

\* The numeric cells of the columns of (name, party) in the precinct rows of
\* a sequence of pages, summed
RowVotes(page, row, name, party) ==
    SumSeq([j \in 1..Len(page.columns) |->
               IF page.columns[j].name = name /\ page.columns[j].party = party
               THEN CellVotes(row, page.columns[j]) ELSE 0])

PagePrecinctVotes(page, name, party) ==
    SumSeq([r \in 1..Len(page.rows) |->
               IF page.has_tables /\ IsPrecinctRow(page.rows[r])
               THEN RowVotes(page, page.rows[r], name, party) ELSE 0])

PrecinctVotes(pages, name, party) ==
    SumSeq([n \in 1..Len(pages) |-> PagePrecinctVotes(pages[n], name, party)])

\* (name, party) has a numeric cell in some precinct row of the pages
Counted(pages, name, party) ==
    \E n \in 1..Len(pages) : \E r \in 1..Len(pages[n].rows) :
        \E j \in 1..Len(pages[n].columns) :
            /\ pages[n].has_tables
            /\ IsPrecinctRow(pages[n].rows[r])
            /\ pages[n].columns[j].name = name
            /\ pages[n].columns[j].party = party
            /\ NumericCell(pages[n].rows[r], pages[n].columns[j])

\* ---- C8 ---------------------------------------------------------------
\* The candidates aggregated for a race agree with the pages of the race
AggregatedFrom(cands, pages) ==
    /\ \A k, m \in 1..Len(cands) : cands[k].name = cands[m].name => k = m
    /\ \A k \in 1..Len(cands) :
           LET c == cands[k] IN
           /\ \A j, m \in 1..Len(c.party_lines) :
                  c.party_lines[j].party = c.party_lines[m].party => j = m
           /\ \A j \in 1..Len(c.party_lines) :
                  /\ Counted(pages, c.name, c.party_lines[j].party)
                  /\ c.party_lines[j].votes =
                         PrecinctVotes(pages, c.name, c.party_lines[j].party)
           /\ c.total_votes = PartyLineSum(c)
    /\ \A n \in 1..Len(pages) : \A j \in 1..Len(pages[n].columns) :
           LET col == pages[n].columns[j] IN
           Counted(pages, col.name, col.party) =>
               \E k \in 1..Len(cands) :
                   /\ cands[k].name = col.name
                   /\ \E m \in 1..Len(cands[k].party_lines) :
                          cands[k].party_lines[m].party = col.party

\* C8: in the Westchester aggregator each (candidate, party) pair of the race
\* being consumed has exactly one PartyLine, whose votes are the sum of that
\* column's numeric cells over all precinct rows and pages of the race, and
\* the candidate's total_votes is the sum over its party lines; the race
\* saved at the end of the document carries exactly these candidates.
C8_OnePartyLinePerPair ==
    /\ current_race_data # None =>
           AggregatedFrom(current_race_data.candidates, CurrentRun(doc))
    /\ (outcome = "returned" /\ current_race_data # None
            /\ current_race_data.candidates # <<>>) =>
           \E i \in 1..Len(races_list) :
               /\ races_list[i].race_title = current_race_title
               /\ races_list[i].candidates = current_race_data.candidates

\* two precinct rows of 120 and 80 for Jane Doe / Democratic were aggregated
C8_Witness ==
    /\ outcome = "returned"
    /\ \E n \in 1..Len(doc) : \E r \in 1..Len(doc[n].rows) :
           doc[n].race_title # "" /\ doc[n].rows[r].cells = <<"80">>
    /\ \E i \in 1..Len(races_list) :
           races_list[i].candidates =
               <<Candidate("Jane Doe", <<PartyLine("Democratic", 200)>>, 200)>>

\* ---- C9 ---------------------------------------------------------------
\* total_votes of the candidate called name, 0 when there is none
TotalOf(cands, name) ==
    IF HasName(cands, name) THEN cands[IndexOfName(cands, name)].total_votes ELSE 0

ColumnNames(pages) ==
    UNION {{pages[n].columns[j].name : j \in 1..Len(pages[n].columns)} : n \in 1..Len(pages)}

\* The numeric cells of the columns of a candidate in the precinct rows
PrecinctRowVotes(pages, name) ==
    SumSeq([n \in 1..Len(pages) |->
        SumSeq([r \in 1..Len(pages[n].rows) |->
            IF pages[n].has_tables /\ IsPrecinctRow(pages[n].rows[r])
            THEN SumSeq([j \in 1..Len(pages[n].columns) |->
                     IF pages[n].columns[j].name = name
                     THEN CellVotes(pages[n].rows[r], pages[n].columns[j]) ELSE 0])
            ELSE 0])])

\* C9: the total of every candidate of an emitted race is the sum of the
\* numeric cells of its columns over the rows whose first cell is non-empty
\* and without 'TOTAL'; the cells of a 'TOTAL' row are never added.
C9_PrecinctRowsSummed ==
    outcome = "returned" =>
        LET runs == Runs(TitledPages(doc)) IN
        \A i \in 1..Len(races) :
            i <= Len(runs) =>
                \A name \in ColumnNames(runs[i]) :
                    TotalOf(races[i].candidates, name) = PrecinctRowVotes(runs[i], name)

\* ---- C10 --------------------------------------------------------------
\* The votes one page contributes to a candidate of its race
PageTotal(page, name) ==
    LET rs == PrecinctFinish(PrecinctPage(TableState(<<>>, None, "", <<>>), page))
    IN IF rs = <<>> THEN 0 ELSE TotalOf(rs[1].candidates, name)

RunTotal(pages, name) == SumSeq([n \in 1..Len(pages) |-> PageTotal(pages[n], name)])

\* C10: for a document whose pages all have a detected title, the races
\* appended so far are, in page order, the maximal runs of consecutive pages
\* with the same title; the run being read is appended only when the title
\* changes or the document ends; each race holds the votes of every page of
\* its run.
C10_OneRacePerRun ==
    AllTitled(doc) =>
        LET runs == Runs(doc) IN
        /\ Len(races) = IF outcome = "returned" \/ doc = <<>>
                        THEN Len(runs) ELSE Len(runs) - 1
        /\ \A i \in 1..Len(races) :
               /\ races[i].race_title = runs[i][1].race_title
               /\ \A name \in ColumnNames(runs[i]) :
                      TotalOf(races[i].candidates, name) = RunTotal(runs[i], name)
               /\ \A k \in 1..Len(races[i].candidates) :
                      races[i].candidates[k].name \in ColumnNames(runs[i])

\* a run of two pages with votes, then a page with another title, was parsed
C10_Witness ==
    /\ outcome = "returned"
    /\ Len(doc) = 3
    /\ AllTitled(doc)
    /\ doc[1].race_title = doc[2].race_title
    /\ doc[2].race_title # doc[3].race_title
    /\ PageTotal(doc[1], "JANE DOE") > 0
    /\ PageTotal(doc[2], "JANE DOE") > 0
    /\ Len(races) = 2
    /\ TotalOf(races[1].candidates, "JANE DOE") =
           PageTotal(doc[1], "JANE DOE") + PageTotal(doc[2], "JANE DOE")

\* ------------------------------------------------------------------------
\* pdf_text_fixer.py.  A word is the sequence of its characters, a line the
\* sequence of its whitespace-delimited words.
\* ------------------------------------------------------------------------
UpperLetters ==
    {"A", "B", "C", "D", "E", "F", "G", "H", "I", "J", "K", "L", "M", "N", "O", "P", "Q",
     "R", "S", "T", "U", "V", "W", "X", "Y", "Z"}

\* str.upper() of a lower-case letter
UpperOf ==
    ("a" :> "A") @@ ("b" :> "B") @@ ("c" :> "C") @@ ("d" :> "D") @@ ("e" :> "E") @@
    ("f" :> "F") @@ ("g" :> "G") @@ ("h" :> "H") @@ ("i" :> "I") @@ ("j" :> "J") @@
    ("k" :> "K") @@ ("l" :> "L") @@ ("m" :> "M") @@ ("n" :> "N") @@ ("o" :> "O") @@
    ("p" :> "P") @@ ("q" :> "Q") @@ ("r" :> "R") @@ ("s" :> "S") @@ ("t" :> "T") @@
    ("u" :> "U") @@ ("v" :> "V") @@ ("w" :> "W") @@ ("x" :> "X") @@ ("y" :> "Y") @@
    ("z" :> "Z")

\* word.isalpha()
IsAlpha(word) ==
    word # <<>> /\ \A i \in 1..Len(word) : word[i] \in UpperLetters \cup DOMAIN UpperOf

\* word.upper()
Upper(word) ==
    [i \in 1..Len(word) |-> IF word[i] \in DOMAIN UpperOf THEN UpperOf[word[i]] ELSE word[i]]

\* word[::-1]
Reverse(word) == [i \in 1..Len(word) |-> word[Len(word) + 1 - i]]

\* word.startswith(p), word.endswith(s)
HasPrefix(word, p) == Len(word) >= Len(p) /\ SubSeq(word, 1, Len(p)) = p
HasSuffix(word, s) ==
    Len(word) >= Len(s) /\ SubSeq(word, Len(word) - Len(s) + 1, Len(word)) = s

\* The mirrored words observed in the Westchester reports
rare_starts ==
    { <<"N", "Y", "L", "A", "R", "E", "H", "S">>, <<"N", "A", "M", "D", "O", "O", "G">>,
      <<"R", "E", "V", "L", "U", "P">>, <<"A", "H", "L", "I", "T", "S", "A", "P">>,
      <<"D", "R", "A", "H", "C", "I", "R">>, <<"W", "A", "L", "N", "I">>,
      <<"N", "A", "V", "E">>, <<"R", "A", "L", "U", "G", "E", "R", "R", "I">>,
      <<"S", "S", "A", "V", "N", "A", "C">>, <<"L", "A", "T", "O", "T">>,
      <<"D", "I", "O", "V">>, <<"K", "N", "A", "L", "B">>,
      <<"T", "O", "L", "L", "A", "B">>, <<"D", "W", "T">>, <<"A", "V", "A", "F">> }

\* The letters of 'NMLRSTABCDEFGHIJKLPQUVWXYZ'
DoubledStartLetters == UpperLetters \ {"O"}

NameSuffixes ==
    { <<"M", "A", "N">>, <<"S", "O", "N">>, <<"V", "E", "R">>, <<"T", "O", "N">>,
      <<"L", "E", "R">>, <<"H", "A", "M">>, <<"A", "N", "N">>, <<"V", "A", "N">> }

\* The shortest word the heuristic looks at
MinMirrorLen == 4

NameHeuristic_AnyStart(word_upper) ==
    \E s \in NameSuffixes : HasSuffix(Reverse(word_upper), s)

\* Lines 117-125: a doubled first letter and a reversal that ends like a name
NameHeuristic(word_upper) ==
    /\ word_upper[1] = word_upper[2]
    /\ word_upper[1] \in DoubledStartLetters
    /\ \E s \in NameSuffixes : HasSuffix(Reverse(word_upper), s)

is_word_likely_mirrored(word) ==
    IF Len(word) < MinMirrorLen \/ ~IsAlpha(word) THEN FALSE
    ELSE LET word_upper == Upper(word) IN
         \/ \E pattern \in rare_starts : HasPrefix(word_upper, pattern)
         \/ NameHeuristic(word_upper)

\* word.split('-') and '-'.join(parts)
RECURSIVE SplitHyphen(_, _)
SplitHyphen(word, part) ==
    IF word = <<>> THEN <<part>>
    ELSE IF Head(word) = "-" THEN <<part>> \o SplitHyphen(Tail(word), <<>>)
    ELSE SplitHyphen(Tail(word), Append(part, Head(word)))

RECURSIVE JoinHyphen(_)
JoinHyphen(parts) ==
    IF Len(parts) = 1 THEN parts[1]
    ELSE parts[1] \o <<"-">> \o JoinHyphen(Tail(parts))

\* Lines 69-72 and 75-79: one word, or one part of a hyphenated word
FixPart(part) ==
    IF Len(part) > MinMirrorLen - 1 /\ IsAlpha(part) /\ is_word_likely_mirrored(part)
    THEN Reverse(part) ELSE part

\* Variant that joins the parts of a hyphenated word without the hyphens
FixWord_DropsHyphens(word) ==
    IF \E i \in 1..Len(word) : word[i] = "-"
    THEN LET parts == SplitHyphen(word, <<>>) IN
         SelectSeq(JoinHyphen([k \in 1..Len(parts) |-> FixPart(parts[k])]), LAMBDA c : c # "-")
    ELSE FixPart(word)

\* Lines 63-79: one word of a line
FixWord(word) ==
    IF \E i \in 1..Len(word) : word[i] = "-"
    THEN LET parts == SplitHyphen(word, <<>>) IN
         JoinHyphen([k \in 1..Len(parts) |-> FixPart(parts[k])])
    ELSE FixPart(word)

\* _fix_mirrored_words on one line of the text
fix_mirrored_words(words) == [k \in 1..Len(words) |-> FixWord(words[k])]

\* ------------------------------------------------------------------------
\* Specification of the mirrored-text repair: one call on one line
\* ------------------------------------------------------------------------
MaxWords == 2

MirrorWords ==
    { <<"N", "A", "M", "D", "O", "O", "G">>, <<"R", "E", "V", "L", "U", "P">>,
      <<"G", "E", "N", "E", "R", "A", "L">>, <<"I", "N", "D", "E", "X">>,
      <<"N", "A", "V", "E", "L">>, <<"N", "N", "A", "M", "F", "F", "O", "H">>,
      <<"n", "a", "v", "e">>, <<"A", "V", "A", "F", "-", "1", "2">> }

InitMirror ==
    /\ input \in SeqUpTo(MirrorWords, MaxWords)
    /\ output = None
    /\ inv = <<>>
    /\ data = NoData
    /\ validation = Pending
    /\ ParseIdle
    /\ TableIdle
    /\ CountyIdle

FixMirrored ==
    /\ output = None
    /\ output' = Result(fix_mirrored_words(input))
    /\ UNCHANGED <<input, inv, valVars, parseVars, tableVars, countyVars>>

NextMirror == FixMirrored

SpecMirror == InitMirror /\ [][NextMirror]_vars

\* ---- C12 --------------------------------------------------------------
\* The token is an entry of the curated list of observed mirrored tokens
ListedMirrored(word) == Upper(word) \in rare_starts

\* At least 4 alphabetic characters, a doubled first letter, and a reversal
\* that ends in a listed name suffix
LooksMirrored(word) ==
    /\ Len(word) >= 4
    /\ IsAlpha(word)
    /\ Upper(word)[1] = Upper(word)[2]
    /\ \E s \in NameSuffixes : HasSuffix(Reverse(Upper(word)), s)

\* C12: the repair reverses a token exactly when it is an entry of the
\* curated list or looks mirrored (doubled first letter, reversal ending in a
\* name suffix); every other token, such as a word that merely begins with a
\* listed entry, is output unchanged.
C12_ReversedExactlyWhenMirrored ==
    output # None =>
        /\ Len(output.result) = Len(input)
        /\ \A k \in 1..Len(input) :
               output.result[k] = IF ListedMirrored(input[k]) \/ LooksMirrored(input[k])
                           THEN Reverse(input[k]) ELSE input[k]

\* ------------------------------------------------------------------------
\* PrecinctTableParser._fix_vertical_text.  The cell text is the sequence of
\* its lines (text.split('\n')), a line the sequence of its characters.
\* ------------------------------------------------------------------------
\* s.strip()
RECURSIVE LStrip(_)
LStrip(s) == IF s # <<>> /\ Head(s) = " " THEN LStrip(Tail(s)) ELSE s

Strip(s) == Reverse(LStrip(Reverse(LStrip(s))))

\* ''.join(parts)
RECURSIVE Concat(_)
Concat(parts) == IF parts = <<>> THEN <<>> ELSE Head(parts) \o Concat(Tail(parts))

\* re.sub(r'\.', '. ', s)
RECURSIVE SubPeriod(_)
SubPeriod(s) ==
    IF s = <<>> THEN <<>>
    ELSE IF Head(s) = "." THEN <<".", " ">> \o SubPeriod(Tail(s))
    ELSE <<Head(s)>> \o SubPeriod(Tail(s))

\* re.sub(r'/', ' / ', s)
RECURSIVE SubSlash(_)
SubSlash(s) ==
    IF s = <<>> THEN <<>>
    ELSE IF Head(s) = "/" THEN <<" ", "/", " ">> \o SubSlash(Tail(s))
    ELSE <<Head(s)>> \o SubSlash(Tail(s))

\* re.sub(r'\s+', ' ', s)
RECURSIVE CollapseSpaces(_)
CollapseSpaces(s) ==
    IF Len(s) < 2 THEN s
    ELSE IF s[1] = " " /\ s[2] = " " THEN CollapseSpaces(Tail(s))
    ELSE <<Head(s)>> \o CollapseSpaces(Tail(s))

\* [p.strip() for p in text.split('\n') if p.strip()]
StrippedParts(lines) ==
    LET stripped == [i \in 1..Len(lines) |-> Strip(lines[i])]
        NonEmpty(p) == p # <<>>
    IN  SelectSeq(stripped, NonEmpty)

fix_vertical_text_Unreversed(lines) ==
    Strip(CollapseSpaces(SubSlash(SubPeriod(Concat(StrippedParts(lines))))))

fix_vertical_text(lines) ==
    LET parts == Reverse(StrippedParts(lines))
        joined == Concat(parts)
    IN  Strip(CollapseSpaces(SubSlash(SubPeriod(joined))))

\* ------------------------------------------------------------------------
\* Specification of the vertical-header join: one call on one header cell
\* ------------------------------------------------------------------------
MaxParts == 3

VerticalLines ==
    { <<"A">>, <<"D">>, <<".">>, <<"/">>, <<" ">>, <<>>, <<"A", " ">>, <<"R", "I">> }

\* 'KAMALA D. HARRIS', one character a line, from the bottom to the top
KamalaLines ==
    << <<"S">>, <<"I">>, <<"R">>, <<"R">>, <<"A">>, <<"H">>, <<" ">>, <<".">>, <<"D">>,
       <<" ">>, <<"A">>, <<"L">>, <<"A">>, <<"M">>, <<"A">>, <<"K">> >>

InitVertical ==
    /\ input \in SeqUpTo(VerticalLines, MaxParts) \cup {KamalaLines}
    /\ output = None
    /\ inv = <<>>
    /\ data = NoData
    /\ validation = Pending
    /\ ParseIdle
    /\ TableIdle
    /\ CountyIdle

FixVertical ==
    /\ output = None
    /\ output' = Result(fix_vertical_text(input))
    /\ UNCHANGED <<input, inv, valVars, parseVars, tableVars, countyVars>>

NextVertical == FixVertical

SpecVertical == InitVertical /\ [][NextVertical]_vars

\* ---- C13 --------------------------------------------------------------
\* The string without its whitespace
WithoutSpaces(s) == LET NotSpace(ch) == ch # " " IN SelectSeq(s, NotSpace)

SingleCharLines(lines) == \A i \in 1..Len(lines) : Len(lines[i]) = 1

KamalaHarris ==
    <<"K", "A", "M", "A", "L", "A", " ", "D", ".", " ", "H", "A", "R", "R", "I", "S">>

FragmentTotal(candidate) ==
    IF "total" \in candidate.keys THEN candidate.total
    ELSE IF "total_votes" \in candidate.keys THEN candidate.total_votes
    ELSE 0

\* The position of the name among the keys of the dict, 0 when it is not a key
KeyIndex(consolidated, name) ==
    IF \E i \in 1..Len(consolidated) : consolidated[i].name = name
    THEN CHOOSE i \in 1..Len(consolidated) : consolidated[i].name = name
    ELSE 0

ConsolidateStep_Overwrite(consolidated, candidate) ==
    LET name == candidate.name
        known == IF KeyIndex(consolidated, name) = 0
                 THEN Append(consolidated, [name |-> name, party_lines |-> <<>>, total |-> 0])
                 ELSE consolidated
        k == KeyIndex(known, name)
    IN  [known EXCEPT ![k] = [name |-> name,
                              party_lines |-> known[k].party_lines \o candidate.party_lines,
                              total |-> FragmentTotal(candidate)]]

\* One iteration of the loop over the candidates
ConsolidateStep(consolidated, candidate) ==
    LET name == candidate.name
        known == IF KeyIndex(consolidated, name) = 0
                 THEN Append(consolidated, [name |-> name, party_lines |-> <<>>, total |-> 0])
                 ELSE consolidated
        k == KeyIndex(known, name)
    IN  [known EXCEPT ![k] = [name |-> name,
                              party_lines |-> known[k].party_lines \o candidate.party_lines,
                              total |-> known[k].total + FragmentTotal(candidate)]]

RECURSIVE ConsolidateLoop(_, _)
ConsolidateLoop(consolidated, candidates) ==
    IF candidates = <<>> THEN consolidated
    ELSE ConsolidateLoop(ConsolidateStep(consolidated, Head(candidates)), Tail(candidates))

\* list(consolidated.values()): dicts keep the insertion order of their keys
consolidate_candidates(candidates) == ConsolidateLoop(<<>>, candidates)

\* ------------------------------------------------------------------------
\* Specification of the merge: one call on the candidates of one race
\* ------------------------------------------------------------------------
MaxFragments == 3

FragmentPartyLines ==
    { <<>>, <<PartyLine("Democratic", 1)>>, <<PartyLine("Republican", 2)>> }

Fragments ==
    [name : {"Jane Doe", "John Roe"},
     party_lines : FragmentPartyLines,
     keys : {{"total"}, {"total_votes"}, {}},
     total : {1},
     total_votes : {2}]

InitConsolidate ==
    /\ input \in SeqUpTo(Fragments, MaxFragments)
    /\ output = None
    /\ inv = <<>>
    /\ data = NoData
    /\ validation = Pending
    /\ ParseIdle
    /\ TableIdle
    /\ CountyIdle

Consolidate ==
    /\ output = None
    /\ output' = Result(consolidate_candidates(input))
    /\ UNCHANGED <<input, inv, valVars, parseVars, tableVars, countyVars>>

NextConsolidate == Consolidate

SpecConsolidate == InitConsolidate /\ [][NextConsolidate]_vars

\* ---- C16 --------------------------------------------------------------
\* The fragments of one candidate, in input order
FragmentsOf(candidates, name) ==
    LET Named(c) == c.name = name IN SelectSeq(candidates, Named)

\* The positions at which a name occurs for the first time
FirstOccurrences(candidates) ==
    {i \in 1..Len(candidates) : \A j \in 1..(i - 1) : candidates[j].name # candidates[i].name}

RECURSIVE FragmentTotals(_)
FragmentTotals(candidates) ==
    IF candidates = <<>> THEN 0
    ELSE FragmentTotal(Head(candidates)) + FragmentTotals(Tail(candidates))

RECURSIVE FragmentLines(_)
FragmentLines(candidates) ==
    IF candidates = <<>> THEN <<>>
    ELSE Head(candidates).party_lines \o FragmentLines(Tail(candidates))

RECURSIVE EntryTotals(_)
EntryTotals(entries) ==
    IF entries = <<>> THEN 0 ELSE Head(entries).total + EntryTotals(Tail(entries))

\* C16: the merge returns exactly one entry per distinct candidate name, in
\* order of first occurrence; the entry's party lines are the concatenation of
\* the party lines of the fragments of that name in input order and its total
\* is the sum of their totals, so the sum of the totals over the race is kept.
C16_FragmentsMerged ==
    output # None =>
        LET merged == output.result
            first == FirstOccurrences(input)
        IN  /\ Len(merged) = Cardinality(first)
            /\ \A k \in 1..Len(merged) :
                   \E i \in first :
                       /\ Cardinality({j \in first : j < i}) = k - 1
                       /\ merged[k].name = input[i].name
                       /\ merged[k].party_lines = FragmentLines(FragmentsOf(input, input[i].name))
                       /\ merged[k].total = FragmentTotals(FragmentsOf(input, input[i].name))
            /\ EntryTotals(merged) = FragmentTotals(input)

C16_Witness ==
    /\ output # None
    /\ Len(input) = 3
    /\ input[1].name = "Jane Doe" /\ input[2].name = "John Roe" /\ input[3].name = "Jane Doe"
    /\ input[1].party_lines # <<>> /\ input[3].party_lines # <<>>
    /\ input[1].party_lines # input[3].party_lines
    /\ input[1].keys = {"total"} /\ input[3].keys = {"total_votes"}
    /\ Len(output.result) = 2
    /\ output.result[1].total = 3
    /\ Len(output.result[1].party_lines) = 2

\* ---- C15 --------------------------------------------------------------
\* process_county has validated the parsed result and has returned
Validated == pc = "done" /\ validation # Pending

\* C15: the output file is written and success reported only if
\* validate_extraction returned no issues or force is set; with issues and
\* without force the run reports failure and writes nothing; with force the
\* issues neither raise nor abort: the file is written and the run succeeds.
C15_IssuesBlockUnlessForced ==
    /\ saved => /\ Validated
                /\ returned = "True"
                /\ validation.issues = <<>> \/ force
    /\ (Validated /\ validation.issues # <<>> /\ ~force) => (returned = "False" /\ ~saved)
    /\ (Validated /\ validation.issues # <<>> /\ force) =>
           (~validation.raised /\ returned = "True" /\ saved)
    /\ (Validated /\ validation.issues = <<>> /\ ~validation.raised) =>
           (returned = "True" /\ saved)

C15_Witness ==
    /\ Validated
    /\ validation.issues # <<>>
    /\ force
    /\ saved
    /\ returned = "True"

\* ---- C20 --------------------------------------------------------------
IsPrefix(s, t) == Len(s) <= Len(t) /\ SubSeq(t, 1, Len(s)) = s

\* The race that is open before a step, as the step leaves it: the race just
\* appended to the list when the step has closed it, the open race otherwise
OpenRaceAfter == IF Len(races') > Len(races) THEN races'[Len(races')] ELSE current_race'

\* A step of the parse that does not raise
StandardStep == outcome = "running" /\ outcome' # "raised"

\* The races: a marker closes the open race into the list and opens the next
\* one, the end of the document closes the last one, nothing else touches
\* the list
RacesKeptInMarkerOrder ==
    /\ IsPrefix(races, races')
    /\ IF markers' # markers
       THEN /\ Len(races') = Len(races) + (IF current_race = None THEN 0 ELSE 1)
            /\ current_race' # None
            /\ current_race'.race_title = JoinTokens(prev_line)
            /\ current_race'.candidates = <<>>
       ELSE IF outcome' = "returned"
       THEN /\ Len(races') = Len(races) + (IF current_race = None THEN 0 ELSE 1)
            /\ Len(races') = markers
       ELSE /\ races' = races
            /\ (current_race = None) <=> (current_race' = None)
    /\ current_race # None =>
           /\ OpenRaceAfter.race_title = current_race.race_title
           /\ IsPrefix(current_race.candidates, OpenRaceAfter.candidates)

\* The pending accumulator: it stays pending with its party lines, or it is
\* appended with them to the race that was open
AccumulatorKept ==
    current_candidate # None =>
        LET flushed ==
                /\ current_race # None
                /\ Len(OpenRaceAfter.candidates) = Len(current_race.candidates) + 1
                /\ OpenRaceAfter.candidates[Len(OpenRaceAfter.candidates)].party_lines
                       = current_candidate.party_lines
        IN  IF outcome' = "returned" THEN flushed
            ELSE \/ /\ current_candidate' # None
                    /\ IsPrefix(current_candidate.party_lines, current_candidate'.party_lines)
                    /\ Len(races') = Len(races)
                 \/ /\ current_candidate' = None
                    /\ flushed

\* The number of races matches the number of markers read
RaceCountMatchesMarkers ==
    /\ outcome = "running" =>
           Len(races) + (IF current_race = None THEN 0 ELSE 1) = markers
    /\ outcome = "returned" => Len(races) = markers

\* C20: every race opened by a marker is in the returned list exactly once,
\* in marker order, and every pending candidate accumulator is appended to
\* the race that was open when its party lines were read (at the next summary
\* line, 'Name Total N' line, marker or the end of the document), never to a
\* later race and never dropped.
C20_RacesAndAccumulatorsKept ==
    /\ []RaceCountMatchesMarkers
    /\ [][StandardStep => (RacesKeptInMarkerOrder /\ AccumulatorKept)]_vars

C20_Witness ==
    /\ outcome = "returned"
    /\ markers = 2
    /\ Len(races) = 2
    /\ races[1].candidates = <<Candidate("", <<PartyLine("Democratic", 5)>>, 0)>>
    /\ races[2].candidates = <<Candidate("", <<PartyLine("Republican", 3)>>, 0)>>

\* ------------------------------------------------------------------------
\* parsers.py: GreenePDFParser (contest overview reports)
\* ------------------------------------------------------------------------
\* config.py: the party codes of the Greene reports
GREENE_PARTY_MAP ==
    ("DEM" :> "Democratic") @@ ("REP" :> "Republican") @@ ("CON" :> "Conservative") @@
    ("WFP" :> "Working Families") @@ ("IND" :> "Independence") @@ ("OA" :> "OA") @@
    ("OT" :> "OT") @@ ("HR" :> "HR")

\* The token that closes '(Vote for N)' and the N it holds
VoteForClose == ("1)" :> 1) @@ ("2)" :> 2)

\* re.search(r'\(Vote for (\d+)\)', text)
GreeneMarkerAt(line, i) ==
    /\ i + 2 <= Len(line)
    /\ line[i] = "(Vote"
    /\ line[i + 1] = "for"
    /\ line[i + 2] \in DOMAIN VoteForClose

Greene_extract_vote_for(line) ==
    IF \E i \in 1..Len(line) : GreeneMarkerAt(line, i)
    THEN LET i == CHOOSE k \in 1..Len(line) :
                      GreeneMarkerAt(line, k) /\ \A j \in 1..(k - 1) : ~GreeneMarkerAt(line, j)
         IN VoteForClose[line[i + 2]]
    ELSE NoMatch

\* line.replace('(Vote for N)', '').strip(), for a marker that ends the line
GreeneTitle(line) ==
    LET i == CHOOSE k \in 1..Len(line) : GreeneMarkerAt(line, k)
    IN  JoinTokens(SubSeq(line, 1, i - 1) \o SubSeq(line, i + 3, Len(line)))

\* The race dictionary opened at a '(Vote for N)' marker (lines 398-405)
GreeneRace(race_title, vote_for) ==
    [race_title |-> race_title, vote_for |-> vote_for, candidates |-> <<>>,
     total_votes_cast |-> 0, under_votes |-> 0, over_votes |-> 0]

\* Tokens that start with 'file:///'
FileTokens == {"file:///C:/results.html"}

Greene_is_header_line(line) ==
    \/ ContainsPhrase(line, <<"Contest", "Overview", "Report">>)
    \/ ContainsPhrase(line, <<"General", "Election", "2025">>)
    \/ ContainsPhrase(line, <<"Official", "Results">>)
    \/ (line # <<>> /\ line[1] \in FileTokens)

\* Tokens that hold the character '%'
PercentTokens == {"61.5%", "38.5%", "23.1%", "0.5%", "100%"}

\* '%' in line
HasPercent(line) == \E i \in 1..Len(line) : line[i] \in PercentTokens

\* Tokens that start with '(' and tokens that end with ')'
OpenParenTokens == {"(DEM)", "(DEM,"}
CloseParenTokens == {"(DEM)", "WFP)"}

\* re.match(r'(.+?)\s*\(([^)]+)\)', text_part): the name before the first
\* parenthesis that is closed later; the whole text when there is none
GreeneName(text_part) ==
    LET Opens(k) == /\ text_part[k] \in OpenParenTokens
                    /\ \E j \in k..Len(text_part) : text_part[j] \in CloseParenTokens
    IN  IF \E k \in 2..Len(text_part) : Opens(k)
        THEN LET k == CHOOSE k \in 2..Len(text_part) :
                          Opens(k) /\ \A j \in 2..(k - 1) : ~Opens(j)
             IN JoinTokens(SubSeq(text_part, 1, k - 1))
        ELSE JoinTokens(text_part)

\* Lines 412-426: 'Undervotes: N' or 'Overvotes: N', int() is not guarded
GreeneCountLine(st, line, field) ==
    IF Len(line) >= 2
    THEN IF IntParses(line[2])
         THEN [st EXCEPT !.current_race = [@ EXCEPT ![field] = IntVal[line[2]]]]
         ELSE [st EXCEPT !.exc = "ValueError"]
    ELSE st

\* Lines 444-501: a line 'text votes percent%'
GreeneVotesLine(st, line) ==
    LET text_part == SubSeq(line, 1, Len(line) - 2)
        votes_str == line[Len(line) - 1]
    IN
    IF ~IsDigit(votes_str) THEN st
    ELSE
    LET votes == IntVal[votes_str] IN
    IF is_known_party(text_part)
    THEN IF st.current_candidate # None
         THEN [st EXCEPT !.current_candidate.party_lines =
                   Append(@, PartyLine(get_display_name(normalize_party(text_part)), votes))]
         ELSE st
    ELSE
    LET flushed == IF st.current_candidate # None
                   THEN AddCandidate(st.current_race, st.current_candidate)
                   ELSE st.current_race
    IN
    IF text_part[1] = "Write-in"
    THEN [st EXCEPT !.current_race =
                        AddCandidate(flushed, Candidate(JoinTokens(text_part), <<>>, votes)),
                    !.current_candidate = None]
    ELSE [st EXCEPT !.current_race = flushed,
                    !.current_candidate = Candidate(GreeneName(text_part), <<>>, votes)]

\* The body of the loop over lines (lines 381-501) for one line
GreeneLine(st, line) ==
    IF line = <<>> \/ Greene_is_header_line(line) THEN st
    ELSE
    LET vote_for == Greene_extract_vote_for(line) IN
    IF vote_for # NoMatch
    THEN LET flush == st.current_race # None /\ st.current_candidate # None
             closed == IF flush THEN AddCandidate(st.current_race, st.current_candidate)
                       ELSE st.current_race
         IN ParseState(IF st.current_race # None THEN Append(st.races, closed) ELSE st.races,
                       GreeneRace(GreeneTitle(line), vote_for),
                       IF st.current_race # None THEN None ELSE st.current_candidate,
                       st.in_race, "")
    ELSE IF st.current_race = None THEN st
    ELSE IF StartsWith(line, <<"Times", "Cast:">>) THEN st
    ELSE IF line[1] = "Undervotes:" THEN GreeneCountLine(st, line, "under_votes")
    ELSE IF line[1] = "Overvotes:" THEN GreeneCountLine(st, line, "over_votes")
    ELSE IF StartsWith(line, <<"Double", "Votes:">>) THEN st
    ELSE IF ContainsPhrase(line, <<"Precincts", "reported:">>) THEN st
    ELSE IF line[1] = "Total" /\ Len(line) >= 2 /\ HasPercent(line)
    THEN IF IsDigit(line[2])
         THEN [st EXCEPT !.current_race.total_votes_cast = IntVal[line[2]]]
         ELSE st
    ELSE IF HasPercent(line) /\ line[1] # "Total" /\ Len(line) >= 3
    THEN GreeneVotesLine(st, line)
    ELSE st

\* Lines 503-509: the end of the document
GreeneFinish(st) == StandardFinish(st)

\* ------------------------------------------------------------------------
\* Specification of GreenePDFParser: one parse invocation over a document
\* read line by line; prev_line holds the line of the last iteration
\* ------------------------------------------------------------------------
GreeneLines ==
    { <<>>,
      <<"Contest", "Overview", "Report">>,
      <<"Sheriff", "(Vote", "for", "1)">>,
      <<"Jane", "Doe", "(DEM,", "WFP)", "8", "61.5%">>,
      <<"John", "Smith", "5", "38.5%">>,
      <<"DEM", "5", "38.5%">>,
      <<"WFP", "3", "23.1%">>,
      <<"OA", "3", "23.1%">>,
      <<"Write-in", "1", "0.5%">>,
      <<"Write-in", "Smith", "1", "0.5%">>,
      <<"Undervotes:", "2">>,
      <<"Overvotes:", "--">>,
      <<"Times", "Cast:", "9">>,
      <<"Total", "8", "100%">> }

InitGreene ==
    /\ data = NoData
    /\ validation = Pending
    /\ races = <<>>
    /\ current_race = None
    /\ current_candidate = None
    /\ in_race = FALSE
    /\ prev_line = <<>>
    /\ last_line = <<>>
    /\ nlines = 0
    /\ markers = 0
    /\ outcome = "running"
    /\ TableIdle
    /\ CountyIdle
    /\ AuxIdle

\* One iteration of the loop over the lines
GreeneReadLine(line) ==
    /\ outcome = "running"
    /\ nlines < MaxLines
    /\ LET st == GreeneLine(ParseState(races, current_race, current_candidate, in_race, ""), line)
       IN IF st.exc # ""
          THEN /\ outcome' = "raised"
               /\ UNCHANGED <<races, current_race, current_candidate>>
          ELSE /\ races' = st.races
               /\ current_race' = st.current_race
               /\ current_candidate' = st.current_candidate
               /\ UNCHANGED outcome
    /\ prev_line' = line
    /\ last_line' = line
    /\ nlines' = nlines + 1
    /\ markers' = IF Greene_extract_vote_for(line) # NoMatch /\ ~Greene_is_header_line(line)
                  THEN markers + 1 ELSE markers
    /\ UNCHANGED <<in_race, valVars, tableVars, countyVars, auxVars>>

\* The document ends: the final race is saved and the list returned
GreeneReturn ==
    /\ outcome = "running"
    /\ races' = GreeneFinish(ParseState(races, current_race, current_candidate, in_race, ""))
    /\ outcome' = "returned"
    /\ UNCHANGED <<valVars, current_race, current_candidate, in_race, prev_line, last_line, nlines,
                   markers, tableVars, countyVars, auxVars>>

NextGreene ==
    \/ \E line \in GreeneLines : GreeneReadLine(line)
    \/ GreeneReturn

SpecGreene == InitGreene /\ [][NextGreene]_vars

\* ---- C17 --------------------------------------------------------------
\* A line 'party votes percent%' whose party the parser knows
IsPartyCountLine(line) ==
    /\ Len(line) >= 3
    /\ HasPercent(line)
    /\ line[1] # "Total"
    /\ IsDigit(line[Len(line) - 1])
    /\ is_known_party(SubSeq(line, 1, Len(line) - 2))

RECURSIVE CandidatesPartyLines(_)
CandidatesPartyLines(candidates) ==
    IF candidates = <<>> THEN 0
    ELSE Len(Head(candidates).party_lines) + CandidatesPartyLines(Tail(candidates))

\* The party lines held by the open race and by the pending candidate
OpenPartyLines(race, candidate) ==
    (IF race = None THEN 0 ELSE CandidatesPartyLines(race.candidates))
    + (IF candidate = None THEN 0 ELSE Len(candidate.party_lines))

\* The iteration that has just read prev_line' with a race open
GreeneReadsInRace ==
    /\ outcome = "running"
    /\ outcome' = "running"
    /\ nlines' = nlines + 1
    /\ current_race # None
    /\ markers' = markers

\* C17: while a race is open, each line 'known party + numeric count' adds
\* exactly one PartyLine to a candidate, creating an accumulator when none is
\* open; no such line is discarded, also not before the first candidate line.
C17_PartyLineNeverDiscarded ==
    [][(GreeneReadsInRace /\ IsPartyCountLine(prev_line')) =>
           OpenPartyLines(current_race', current_candidate')
               = OpenPartyLines(current_race, current_candidate) + 1]_vars

\* ---- C18 --------------------------------------------------------------
\* A breakdown line 'CODE votes percent%' whose code is in the Greene table
IsGreeneCodeLine(line) ==
    /\ Len(line) = 3
    /\ line[1] \in DOMAIN GREENE_PARTY_MAP
    /\ IsDigit(line[2])
    /\ line[3] \in PercentTokens

\* C18: a breakdown line whose text part is a code of the Greene table (DEM,
\* REP, CON, WFP, IND, OA, OT, HR) is resolved through that table and attached
\* as a PartyLine to the open candidate; it does not flush the open candidate
\* and does not open or emit a candidate named after the code.
C18_GreeneCodeAttached ==
    [][(GreeneReadsInRace /\ current_candidate # None /\ IsGreeneCodeLine(prev_line')) =>
           /\ current_race' = current_race
           /\ current_candidate' =
                  [current_candidate EXCEPT !.party_lines =
                       Append(@, PartyLine(GREENE_PARTY_MAP[prev_line'[1]],
                                           IntVal[prev_line'[2]]))]]_vars

\* ------------------------------------------------------------------------
\* parsers.py: CanvassPDFParser (statements of canvass).  candidate_dict is
\* the sequence of its values in insertion order; each value carries its key
\* as name.
\* ------------------------------------------------------------------------
Canvass_is_header_line(line) ==
    \/ ContainsPhrase(line, <<"Statement", "of", "the", "County", "Board", "of", "Canvassers">>)
    \/ ContainsPhrase(line, <<"Orange", "County">>)
    \/ ContainsPhrase(line, <<"2024", "General", "Election">>)
    \/ ContainsPhrase(line, <<"November">>)
    \/ ContainsPhrase(line, <<"to", "canvass", "the", "votes">>)

\* The tokens that end with a comma, without the comma
CommaTokens == ("Sheriff," :> "Sheriff") @@ ("Clerk," :> "Clerk")

\* ', was' in line
TitleEndAt(line, i) ==
    /\ i + 1 <= Len(line)
    /\ line[i] \in DOMAIN CommaTokens
    /\ line[i + 1] = "was"

HasTitleEnd(line) == \E i \in 1..Len(line) : TitleEndAt(line, i)

\* line.split(', was')[0].strip()
CanvassTitle(line) ==
    LET i == CHOOSE k \in 1..Len(line) :
                 TitleEndAt(line, k) /\ \A j \in 1..(k - 1) : ~TitleEndAt(line, j)
    IN  JoinTokens(Append(SubSeq(line, 1, i - 1), CommaTokens[line[i]]))

\* The race dictionary of lines 777-786
CanvassRace(race_title) == StandardRace(race_title, 1)

\* The locals of _parse_races
CanvassState(rs, cr, cd, pending, exc) ==
    [races |-> rs, current_race |-> cr, candidate_dict |-> cd,
     pending_race_start |-> pending, exc |-> exc]

\* Lines 793-809: 'Blank', 'Void' and 'Scattering' take the number of the
\* previous raw line of the page
CanvassPrevCount(st, prev, field) ==
    IF Len(prev) = 1 /\ IsDigit(prev[1])
    THEN [st EXCEPT !.current_race = [@ EXCEPT ![field] = IntVal[prev[1]]]]
    ELSE st

\* Lines 811-821: 'Total Votes ... N' and 'Total Ballots Cast N', int() is
\* not guarded
CanvassTotalLine(st, line, field, min_parts) ==
    IF Len(line) >= min_parts
    THEN IF IntParses(line[Len(line)])
         THEN [st EXCEPT !.current_race = [@ EXCEPT ![field] = IntVal[line[Len(line)]]]]
         ELSE [st EXCEPT !.exc = "ValueError"]
    ELSE st

\* The positions of ' received ' in the line
ReceivedAt(line) == {i \in 2..(Len(line) - 1) : line[i] = "received"}

\* Lines 857-867: the scan of the tokens of the prefix from the end, from
\* position k down
RECURSIVE CanvassScan(_, _, _, _, _)
CanvassScan(tokens, k, name_parts, party_parts, found_party) ==
    IF k = 0 THEN [name_parts |-> name_parts, party_parts |-> party_parts]
    ELSE IF is_known_party(<<tokens[k]>> \o party_parts)
    THEN CanvassScan(tokens, k - 1, name_parts, <<tokens[k]>> \o party_parts, TRUE)
    ELSE CanvassScan(tokens, k - 1, <<tokens[k]>> \o name_parts, party_parts, found_party)

\* candidate_dict[key] = value
CandidateDictSet(cd, value) ==
    IF KeyIndex(cd, value.name) = 0 THEN Append(cd, value)
    ELSE [cd EXCEPT ![KeyIndex(cd, value.name)] = value]

\* Variant that stores the votes of the line as the total
CandidateDictAdd_SetsTotal(cd, name, party, votes) ==
    LET known == IF KeyIndex(cd, name) = 0 THEN Append(cd, Candidate(name, <<>>, 0)) ELSE cd
        k == KeyIndex(known, name)
    IN  [known EXCEPT ![k].party_lines = Append(@, PartyLine(party, votes)),
                      ![k].total_votes = votes]

\* Lines 875-887: the party line is added to the candidate of that name
CandidateDictAdd(cd, name, party, votes) ==
    LET known == IF KeyIndex(cd, name) = 0 THEN Append(cd, Candidate(name, <<>>, 0)) ELSE cd
        k == KeyIndex(known, name)
    IN  [known EXCEPT ![k].party_lines = Append(@, PartyLine(party, votes)),
                      ![k].total_votes = @ + votes]

WriteInKey_BareName(name) == name

\* Line 842: the key and name of a write-in candidate
WriteInKey(name) == "Write-in - " \o name

\* Lines 823-887: a line '<prefix> received <votes>'
CanvassReceivedLine(st, line) ==
    IF Cardinality(ReceivedAt(line)) # 1 THEN st
    ELSE
    LET r == CHOOSE i \in ReceivedAt(line) : TRUE
        prefix == SubSeq(line, 1, r - 1)
        votes_str == SubSeq(line, r + 1, Len(line))
    IN
    IF ~(Len(votes_str) = 1 /\ IsDigit(votes_str[1])) THEN st
    ELSE
    LET votes == IntVal[votes_str[1]] IN
    IF Len(prefix) >= 2 /\ prefix[1] = "Write-in" /\ prefix[2] = "-"
    THEN LET name == JoinTokens(SubSeq(prefix, 3, Len(prefix)))
             write_in_key == WriteInKey(name)
         IN [st EXCEPT !.candidate_dict = CandidateDictSet(@, Candidate(write_in_key, <<>>, votes))]
    ELSE
    LET scan == CanvassScan(prefix, Len(prefix), <<>>, <<>>, FALSE) IN
    IF scan.name_parts # <<>> /\ scan.party_parts # <<>>
    THEN [st EXCEPT !.candidate_dict =
              CandidateDictAdd(@, JoinTokens(scan.name_parts),
                               get_display_name(normalize_party(scan.party_parts)), votes)]
    ELSE st

\* The body of the loop over lines (lines 752-887) for one line; prev is
\* lines[i - 1] of the page and first says that i = 0
CanvassLine(st, line, prev, first) ==
    IF line = <<>> \/ Canvass_is_header_line(line) THEN st
    ELSE IF ContainsPhrase(line, <<"the", "office", "of">>)
    THEN [st EXCEPT !.pending_race_start = TRUE]
    ELSE IF st.pending_race_start /\ HasTitleEnd(line)
    THEN CanvassState(IF st.current_race # None
                      THEN Append(st.races,
                                  [st.current_race EXCEPT !.candidates = st.candidate_dict])
                      ELSE st.races,
                      CanvassRace(CanvassTitle(line)), <<>>, FALSE, "")
    ELSE IF st.current_race = None THEN st
    ELSE IF line = <<"Blank">> /\ ~first THEN CanvassPrevCount(st, prev, "under_votes")
    ELSE IF line = <<"Void">> /\ ~first THEN CanvassPrevCount(st, prev, "over_votes")
    ELSE IF line[1] = "Scattering" /\ ~first THEN CanvassPrevCount(st, prev, "write_in")
    ELSE IF StartsWith(line, <<"Total", "Votes">>)
    THEN CanvassTotalLine(st, line, "total_votes_cast", 3)
    ELSE IF StartsWith(line, <<"Total", "Ballots", "Cast">>)
    THEN CanvassTotalLine(st, line, "total_ballots_cast", 4)
    ELSE IF ReceivedAt(line) # {}
    THEN CanvassReceivedLine(st, line)
    ELSE st

\* Lines 889-894: the end of the document
CanvassFinish(st) ==
    IF st.current_race # None
    THEN Append(st.races, [st.current_race EXCEPT !.candidates = st.candidate_dict])
    ELSE st.races

\* ------------------------------------------------------------------------
\* Specification of concurrent invocations of _parse_races on one parser
\* object.  The parser classes define no instance attribute and no module
\* state: every accumulator is a local of the invocation.  inv[i] is the call
\* frame of invocation i: the items (lines, pages) it has consumed, its
\* locals, and its outcome.
\* ------------------------------------------------------------------------
MaxFed == 3

Invocations == {1, 2}

InvocationParsers == {"StandardPDFParser", "CanvassPDFParser", "PrecinctTableParser"}

\* The lines and pages of the documents
InvocationItems(cls) ==
    IF cls = "StandardPDFParser"
    THEN { <<"Vote", "For", "1">>, <<"Democratic", "5">>, <<"Jane", "Doe", "Total", "8">> }
    ELSE IF cls = "CanvassPDFParser"
    THEN { <<"votes", "for", "the", "office", "of">>,
           <<"Sheriff,", "was", "9">>,
           <<"Jane", "Doe", "Working", "Families", "received", "3">> }
    ELSE { Page("PRESIDENT", TRUE, PrecinctColumns, <<Row(<<"TOTAL">>, <<"5", "3">>)>>),
           Page("COUNTY CLERK", TRUE, PrecinctColumns, <<Row(<<"TOTAL">>, <<"3", "5">>)>>),
           Page("", TRUE, PrecinctColumns, <<Row(<<"TOTAL">>, <<"5", "3">>)>>) }

\* The locals at the start of _parse_races (lines 100-106, 741-746, 1077-1083)
InitialLocals(cls) ==
    IF cls = "StandardPDFParser" THEN ParseState(<<>>, None, None, FALSE, "")
    ELSE IF cls = "CanvassPDFParser" THEN CanvassState(<<>>, None, <<>>, FALSE, "")
    ELSE TableState(<<>>, None, "", <<>>)

NewFrame(cls) ==
    [fed |-> <<>>, st |-> InitialLocals(cls), outcome |-> "running", result |-> <<>>]

\* Variant whose race list is created anew in every iteration
FrameRead_ListInsideLoop(cls, frame, item) ==
    LET prev == IF frame.fed = <<>> THEN <<>> ELSE frame.fed[Len(frame.fed)]
        locals == [frame.st EXCEPT !.races = <<>>]
        st == IF cls = "StandardPDFParser" THEN StandardLine(locals, item, prev)
              ELSE IF cls = "CanvassPDFParser"
              THEN CanvassLine(locals, item, prev, frame.fed = <<>>)
              ELSE PrecinctPage(locals, item)
        raised == cls # "PrecinctTableParser" /\ st.exc # ""
    IN  [fed |-> Append(frame.fed, item),
         st |-> IF raised THEN frame.st ELSE st,
         outcome |-> IF raised THEN "raised" ELSE "running",
         result |-> <<>>]

\* One iteration of the loop of the invocation over its next item
FrameRead(cls, frame, item) ==
    LET prev == IF frame.fed = <<>> THEN <<>> ELSE frame.fed[Len(frame.fed)]
        st == IF cls = "StandardPDFParser" THEN StandardLine(frame.st, item, prev)
              ELSE IF cls = "CanvassPDFParser"
              THEN CanvassLine(frame.st, item, prev, frame.fed = <<>>)
              ELSE PrecinctPage(frame.st, item)
        raised == cls # "PrecinctTableParser" /\ st.exc # ""
    IN  [fed |-> Append(frame.fed, item),
         st |-> IF raised THEN frame.st ELSE st,
         outcome |-> IF raised THEN "raised" ELSE "running",
         result |-> <<>>]

\* The end of the document: the race list is returned
FrameReturn(cls, frame) ==
    [frame EXCEPT !.outcome = "returned",
                  !.result = IF cls = "StandardPDFParser" THEN StandardFinish(frame.st)
                             ELSE IF cls = "CanvassPDFParser" THEN CanvassFinish(frame.st)
                             ELSE PrecinctFinish(frame.st)]

InvocationStep_SharedLocals(frames, i, item) ==
    LET read == FrameRead(parser, frames[i], item) IN
    [k \in DOMAIN frames |->
        IF k = i THEN read
        ELSE IF frames[k].outcome = "running" THEN [frames[k] EXCEPT !.st = read.st]
        ELSE frames[k]]

\* Invocation i consumes an item: only its own frame changes
InvocationStep(frames, i, item) ==
    [frames EXCEPT ![i] = FrameRead(parser, frames[i], item)]

InvocationEnd_KeepsEarlierRaces(frames, i) ==
    LET earlier == CHOOSE k \in DOMAIN frames : k # i IN
    [frames EXCEPT ![i] = [FrameReturn(parser, frames[i]) EXCEPT
                               !.result = frames[earlier].result \o @]]

\* Invocation i returns its list
InvocationEnd(frames, i) ==
    [frames EXCEPT ![i] = FrameReturn(parser, frames[i])]

InitInvocations ==
    /\ parser \in InvocationParsers
    /\ inv = [i \in Invocations |-> NewFrame(parser)]
    /\ input = None
    /\ output = None
    /\ registry = HUDSON_VALLEY_COUNTIES
    /\ county_id = ""
    /\ election_date = ""
    /\ dry_run = FALSE
    /\ force = FALSE
    /\ pc = "idle"
    /\ source = ""
    /\ saved = FALSE
    /\ returned = "pending"
    /\ data = NoData
    /\ validation = Pending
    /\ ParseIdle
    /\ TableIdle

InvocationReads(i, item) ==
    /\ inv[i].outcome = "running"
    /\ Len(inv[i].fed) < MaxFed
    /\ inv' = InvocationStep(inv, i, item)
    /\ UNCHANGED <<input, output, valVars, parseVars, tableVars, countyVars>>

InvocationReturns(i) ==
    /\ inv[i].outcome = "running"
    /\ inv' = InvocationEnd(inv, i)
    /\ UNCHANGED <<input, output, valVars, parseVars, tableVars, countyVars>>

NextInvocations ==
    \/ \E i \in Invocations : \E item \in InvocationItems(parser) : InvocationReads(i, item)
    \/ \E i \in Invocations : InvocationReturns(i)

SpecInvocations == InitInvocations /\ [][NextInvocations]_vars

\* ---- C11, C14 ---------------------------------------------------------
\* The frame of an invocation that consumes the items alone, from a fresh
\* parser
RECURSIVE ReadAlone(_, _, _)
ReadAlone(cls, frame, items) ==
    IF items = <<>> \/ frame.outcome # "running" THEN frame
    ELSE ReadAlone(cls, FrameRead(cls, frame, Head(items)), Tail(items))

ParseAlone(cls, items) ==
    LET frame == ReadAlone(cls, NewFrame(cls), items) IN
    IF frame.outcome = "running" THEN FrameReturn(cls, frame) ELSE frame

Finished(frame) == frame.outcome # "running"

PartyPhraseLen(prefix) ==
    IF Len(prefix) >= 2 /\ is_known_party(SubSeq(prefix, Len(prefix) - 1, Len(prefix))) THEN 2
    ELSE IF Len(prefix) >= 1 /\ is_known_party(SubSeq(prefix, Len(prefix), Len(prefix))) THEN 1
    ELSE 0

\* A line '<name> <party phrase> received <votes>'
IsReceivedLine(line) ==
    /\ Len(line) >= 4
    /\ line[Len(line) - 1] = "received"
    /\ IsDigit(line[Len(line)])
    /\ PartyPhraseLen(SubSeq(line, 1, Len(line) - 2)) \in 1..(Len(line) - 3)

ReceivedName(line) ==
    LET prefix == SubSeq(line, 1, Len(line) - 2) IN
    JoinTokens(SubSeq(prefix, 1, Len(prefix) - PartyPhraseLen(prefix)))

ReceivedParty(line) ==
    LET prefix == SubSeq(line, 1, Len(line) - 2) IN
    get_display_name(normalize_party(
        SubSeq(prefix, Len(prefix) - PartyPhraseLen(prefix) + 1, Len(prefix))))

\* C19: after a line '<name> <party phrase> received <votes>' read in an
\* open race, with a known party phrase of one or two tokens, the candidate
\* recorded under exactly the tokens before the party phrase has received a
\* party line with the display name of the longest matching phrase.
C19_NameIsTokensBeforeParty ==
    \A i \in Invocations :
        LET frame == inv[i]
            line == frame.fed[Len(frame.fed)]
        IN  (/\ parser = "CanvassPDFParser"
             /\ frame.outcome = "running"
             /\ frame.fed # <<>>
             /\ frame.st.current_race # None
             /\ IsReceivedLine(line)) =>
                \E k \in 1..Len(frame.st.candidate_dict) :
                    LET c == frame.st.candidate_dict[k] IN
                    /\ c.name = ReceivedName(line)
                    /\ c.party_lines # <<>>
                    /\ c.party_lines[Len(c.party_lines)]
                           = PartyLine(ReceivedParty(line), IntVal[line[Len(line)]])

\* ---- C21 --------------------------------------------------------------
\* The parties of the party lines of a candidate are pairwise distinct
DistinctParties(candidate) ==
    \A p \in 1..Len(candidate.party_lines) : \A q \in 1..Len(candidate.party_lines) :
        p # q => candidate.party_lines[p].party # candidate.party_lines[q].party

\* The columns of the pages of a race that carry the candidate's name
NameColumns(pages, name) ==
    UNION {{pages[n].columns[j] : j \in {x \in 1..Len(pages[n].columns) :
                                             pages[n].columns[x].name = name}} :
           n \in 1..Len(pages)}

\* The largest numeric cell of a column in the rows of the pages, 0 if none
LargestCell(pages, col) ==
    LET cells == UNION {{CellVotes(pages[n].rows[r], col) : r \in 1..Len(pages[n].rows)} :
                        n \in 1..Len(pages)}
    IN IF cells = {} THEN 0 ELSE CHOOSE v \in cells : \A w \in cells : w <= v

\* The most a candidate can hold when every column is added once
OncePerColumn(pages, name) ==
    LET cols == NameColumns(pages, name)
        RECURSIVE SumCols(_)
        SumCols(S) == IF S = {} THEN 0
                      ELSE LET c == CHOOSE x \in S : TRUE
                           IN LargestCell(pages, c) + SumCols(S \ {c})
    IN SumCols(cols)

\* C21: in every race appended by PrecinctTableParser, and in the race being
\* accumulated, a candidate has at most one party line per party and holds
\* no more votes than its columns hold when each is added once, also when
\* the race spans several pages with a TOTAL row each and when 'TOTAL VOTES'
\* or 'TOTAL BALLOTS' rows follow the TOTAL row.
C21_ColumnsAddedOncePerRace ==
    AllTitled(doc) =>
        LET runs == Runs(doc) IN
        /\ \A i \in 1..Len(races) : \A k \in 1..Len(races[i].candidates) :
               LET c == races[i].candidates[k] IN
               /\ DistinctParties(c)
               /\ c.total_votes <= OncePerColumn(runs[i], c.name)
        /\ \A k \in 1..Len(candidate_totals) :
               /\ DistinctParties(candidate_totals[k])
               /\ candidate_totals[k].total_votes
                      <= OncePerColumn(CurrentRun(doc), candidate_totals[k].name)

\* ---- C22 --------------------------------------------------------------
\* The pages of the document on which the title is detected
PagesTitled(pages, title) == SelectSeq(pages, LAMBDA p : p.race_title = title)

\* C22: when the aggregator has written its list, every title under which
\* precinct votes were accumulated has an entry whose candidates hold all
\* the votes of all the pages with that title, also when pages of another
\* title lie between them.
C22_AccumulatedVotesKept ==
    outcome = "returned" =>
        \A title \in SummaryTitles :
            LET pages == PagesTitled(doc, title) IN
            \A name \in ColumnNames(pages) :
                PrecinctRowVotes(pages, name) > 0 =>
                    \E i \in 1..Len(races_list) :
                        /\ races_list[i].race_title = title
                        /\ TotalOf(races_list[i].candidates, name)
                               = PrecinctRowVotes(pages, name)

\* ------------------------------------------------------------------------
\* Specification of the validator applied to parser-shaped race lists:
\* every entry is a dictionary with a str title or name, int votes and a
\* list of party lines
\* ------------------------------------------------------------------------
MaxListed == 2

ListedLine(party, votes) == DictPartyLine(PyStr(party), PyInt(votes))

ListedCandidate(name, total_votes, party_lines) ==
    DictCandidate(PyStr(name), PyInt(total_votes), "list", party_lines)

ListedCandidates ==
    [ok1      |-> ListedCandidate("A", 1, <<ListedLine("Democratic", 1)>>),
     ok2      |-> ListedCandidate("B", 2, <<ListedLine("Democratic", 1),
                                           ListedLine("Working Families", 1)>>),
     noname   |-> ListedCandidate("", 1, <<>>),
     noparty  |-> ListedCandidate("A", 1, <<ListedLine("", 1)>>),
     negative |-> ListedCandidate("A", -1, <<>>),
     negline  |-> ListedCandidate("A", 1, <<ListedLine("Democratic", -1)>>),
     exceeds  |-> ListedCandidate("A", 1, <<ListedLine("Democratic", 2)>>),
     dupparty |-> ListedCandidate("A", 2, <<ListedLine("Democratic", 1),
                                           ListedLine("Democratic", 1)>>)]

ListedRaces ==
    {DictRace(PyStr("Sheriff"), "list", <<ListedCandidates.ok1, ListedCandidates.ok2>>),
     DictRace(PyStr("Clerk"), "list", <<ListedCandidates.ok1>>),
     DictRace(PyStr("Sheriff"), "list", <<ListedCandidates.ok1, ListedCandidates.ok1>>),
     DictRace(PyStr(""), "list", <<ListedCandidates.ok1>>),
     DictRace(PyStr("Sheriff"), "list", <<>>)} \cup
    {DictRace(PyStr("Sheriff"), "list", <<ListedCandidates[k]>>) :
        k \in {"noname", "noparty", "negative", "negline", "exceeds", "dupparty"}}

InitListed ==
    /\ data \in {Data("list", rs) : rs \in SeqUpTo(ListedRaces, MaxListed)}
    /\ validation = Pending
    /\ ParseIdle
    /\ TableIdle
    /\ CountyIdle
    /\ AuxIdle

NextListed == Validate

SpecListed == InitListed /\ [][NextListed]_vars

\* ---- C27 --------------------------------------------------------------
\* The invariants of a candidate: numeric non-negative total, numeric
\* non-negative party-line votes, no party twice, party-line sum within the
\* total
CandidateInvariants(c) ==
    /\ IsNumeric(c.total_votes) /\ c.total_votes.n >= 0
    /\ \A j \in 1..Len(c.party_lines) :
           IsNumeric(c.party_lines[j].votes) /\ c.party_lines[j].votes.n >= 0
    /\ \A j \in 1..Len(c.party_lines) : \A k \in 1..Len(c.party_lines) :
           j # k => c.party_lines[j].party # c.party_lines[k].party
    /\ SumSeq([j \in 1..Len(c.party_lines) |-> c.party_lines[j].votes.n]) <= c.total_votes.n

\* The invariants of a race: non-empty title, at least one candidate,
\* candidate names unique, the invariants of every candidate
RaceInvariants(race) ==
    /\ Truthy(race.race_title)
    /\ race.candidates # <<>>
    /\ \A j \in 1..Len(race.candidates) : \A k \in 1..Len(race.candidates) :
           j # k => race.candidates[j].name # race.candidates[k].name
    /\ \A k \in 1..Len(race.candidates) : CandidateInvariants(race.candidates[k])

ListedInvariants(d) ==
    d.races # <<>> /\ \A i \in 1..Len(d.races) : RaceInvariants(d.races[i])

\* What the validator checks beyond them: race titles unique in the list,
\* candidate names non-empty, party names non-empty
FurtherChecks(d) ==
    /\ \A i \in 1..Len(d.races) : \A j \in 1..Len(d.races) :
           i # j => d.races[i].race_title # d.races[j].race_title
    /\ \A i \in 1..Len(d.races) : \A k \in 1..Len(d.races[i].candidates) :
           LET c == d.races[i].candidates[k] IN
           /\ Truthy(c.name)
           /\ \A j \in 1..Len(c.party_lines) : Truthy(c.party_lines[j].party)

\* C27 as stated: a non-empty race list whose races satisfy the listed
\* invariants is validated with an empty issue list.
C27_ListedInvariantsSuffice ==
    (validation # Pending /\ ListedInvariants(data)) =>
        (~validation.raised /\ validation.issues = <<>>)

\* C27 amended: a non-empty race list whose races satisfy the listed
\* invariants, whose race titles are pairwise distinct and whose candidate
\* and party names are non-empty, is validated with an empty issue list.
C27_ListedAndFurtherSuffice ==
    (validation # Pending /\ ListedInvariants(data) /\ FurtherChecks(data)) =>
        (~validation.raised /\ validation.issues = <<>>)

\* two valid races, one with a fusion candidate, were validated
C27_Witness ==
    /\ validation # Pending
    /\ ListedInvariants(data)
    /\ FurtherChecks(data)
    /\ Len(data.races) = 2
    /\ \E k \in 1..Len(data.races[1].candidates) :
           Len(data.races[1].candidates[k].party_lines) = 2
    /\ validation.issues = <<>>

\* ---- C24 --------------------------------------------------------------
\* A race is open and closed to further lines: 'Total Ballots Cast' was read
\* after its marker
RaceClosed == outcome = "running" /\ current_race # None /\ ~in_race

\* The step reads a line that is not a race marker, without raising
ReadsNonMarker == StandardStep /\ nlines' = nlines + 1 /\ markers' = markers

\* C24: a 'Total Ballots Cast' line read in an open race ends it; until the
\* next 'Vote For N' marker every line leaves the race (its candidates and
\* summary fields), the race list and the closed state as they are, and no
\* candidate accumulator is pending.
C24_ClosedRaceIgnoresLines ==
    /\ [](RaceClosed => current_candidate = None)
    /\ [][(in_race /\ ReadsNonMarker /\ StartsWith(prev_line', <<"Total", "Ballots", "Cast">>))
             => (~in_race' /\ current_candidate' = None)]_vars
    /\ [][(RaceClosed /\ ReadsNonMarker)
             => (/\ current_race' = current_race
                 /\ races' = races
                 /\ current_candidate' = None
                 /\ ~in_race')]_vars

\* a pending party line was flushed by 'Total Ballots Cast', the race closed,
\* and a further party line was then read and ignored
C24_Witness ==
    /\ outcome = "running"
    /\ nlines = 4
    /\ markers = 1
    /\ ~in_race
    /\ prev_line = <<"Republican", "3">>
    /\ current_race # None
    /\ current_race.total_ballots_cast = 9
    /\ current_race.candidates = <<Candidate("", <<PartyLine("Democratic", 5)>>, 0)>>
    /\ current_candidate = None

\* ---- C25 --------------------------------------------------------------
\* C25: the race opened by a 'Vote For N' marker is titled with the text of
\* the line read just before the marker, on the same page or as the last line
\* of the page before.
C25_TitleIsPrecedingLine ==
    [][(StandardStep /\ markers' # markers) =>
           (current_race' # None /\ current_race'.race_title = JoinTokens(last_line))]_vars

\* ------------------------------------------------------------------------
\* Specification of one invocation of _parse_races alone, over documents of
\* up to MaxItems lines or pages
\* ------------------------------------------------------------------------
MaxItems == 4

SingleItems(cls) ==
    IF cls = "StandardPDFParser"
    THEN { <<"Sheriff">>, <<"Vote", "For", "1">>, <<"Democratic", "5">>,
           <<"Jane", "Doe", "Total", "8">>, <<"Total", "Ballots", "Cast", "9">> }
    ELSE IF cls = "CanvassPDFParser"
    THEN { <<"votes", "for", "the", "office", "of">>,
           <<"Sheriff,", "was", "9">>,
           <<"Jane", "Doe", "Democratic", "received", "5">>,
           <<"Jane", "Doe", "Conservative", "received", "3">>,
           <<"Write-in", "-", "Ann", "Lee", "received", "1">> }
    ELSE { Page("PRESIDENT", TRUE, PrecinctColumns, <<Row(<<"TOTAL">>, <<"5", "3">>)>>),
           Page("COUNTY CLERK", TRUE, PrecinctColumns, <<Row(<<"TOTAL">>, <<"3", "5">>)>>),
           Page("PRESIDENT", TRUE,
                <<Column(1, "JANE DOE", "Democratic"), Column(2, "JANE DOE", "Working Families")>>,
                <<Row(<<"ED", "1">>, <<"5", "3">>), Row(<<"TOTAL">>, <<"5", "3">>),
                  Row(<<"BLANK">>, <<"1", "">>)>>),
           Page("PRESIDENT", FALSE, <<>>, <<>>) }

InitSingle ==
    /\ parser \in InvocationParsers
    /\ inv = <<NewFrame(parser)>>
    /\ input = None
    /\ output = None
    /\ registry = HUDSON_VALLEY_COUNTIES
    /\ county_id = ""
    /\ election_date = ""
    /\ dry_run = FALSE
    /\ force = FALSE
    /\ pc = "idle"
    /\ source = ""
    /\ saved = FALSE
    /\ returned = "pending"
    /\ data = NoData
    /\ validation = Pending
    /\ ParseIdle
    /\ TableIdle

\* One iteration of the loop over lines or pages
SingleReads(item) ==
    /\ inv[1].outcome = "running"
    /\ Len(inv[1].fed) < MaxItems
    /\ inv' = InvocationStep(inv, 1, item)
    /\ UNCHANGED <<input, output, valVars, parseVars, tableVars, countyVars>>

\* The document ends: the list is returned
SingleReturns ==
    /\ inv[1].outcome = "running"
    /\ inv' = InvocationEnd(inv, 1)
    /\ UNCHANGED <<input, output, valVars, parseVars, tableVars, countyVars>>

NextSingle ==
    \/ \E item \in SingleItems(parser) : SingleReads(item)
    \/ SingleReturns

SpecSingle == InitSingle /\ [][NextSingle]_vars

\* ---- C23 --------------------------------------------------------------
\* C23: the races appended to the output list stay as they were appended:
\* every later line or page, and the end of the document, leaves the list a
\* prefix of what it becomes (titles, summary fields, candidates, totals and
\* party lines included).
C23_EmittedRacesFrozen ==
    [][\A i \in DOMAIN inv :
           inv[i].outcome = "running" =>
               IF inv'[i].outcome = "returned"
               THEN IsPrefix(inv[i].st.races, inv'[i].result)
               ELSE IsPrefix(inv[i].st.races, inv'[i].st.races)]_vars

\* a race with a candidate was appended, further items were read and the
\* list was returned with a second race
C23_Witness ==
    /\ inv[1].outcome = "returned"
    /\ Len(inv[1].fed) >= 4
    /\ Len(inv[1].result) = 2
    /\ inv[1].result[1].candidates # <<>>
    /\ inv[1].result[2].candidates # <<>>

\* ---- C26 --------------------------------------------------------------
\* The position of ' received ' in a line that holds it once
ReceivedPosition(line) == CHOOSE i \in ReceivedAt(line) : TRUE

\* The keys under which the canvass parser files write-in candidates
WriteInKeys(lines) ==
    {"Write-in - " \o JoinTokens(SubSeq(lines[n], 3, ReceivedPosition(lines[n]) - 1)) :
        n \in {x \in 1..Len(lines) : /\ ReceivedAt(lines[x]) # {}
                                     /\ StartsWith(lines[x], <<"Write-in", "-">>)}}

TotalIsPartySum(c) == c.total_votes = PartyLineSum(c)

\* C26: every candidate of PrecinctTableParser and every candidate of the
\* canvass parser that is not a write-in has, in the accumulator, in the
\* appended races and in the returned list, a total equal to the sum of the
\* votes of its party lines.
C26_TotalIsSumOfPartyLines ==
    parser \in {"CanvassPDFParser", "PrecinctTableParser"} =>
        \A i \in DOMAIN inv :
            LET frame == inv[i]
                regular(c) == parser = "PrecinctTableParser" \/ c.name \notin WriteInKeys(frame.fed)
                open == IF parser = "CanvassPDFParser" THEN frame.st.candidate_dict
                        ELSE frame.st.candidate_totals
            IN  /\ \A k \in 1..Len(open) : regular(open[k]) => TotalIsPartySum(open[k])
                /\ \A r \in 1..Len(frame.st.races) :
                       \A k \in 1..Len(frame.st.races[r].candidates) :
                           regular(frame.st.races[r].candidates[k])
                               => TotalIsPartySum(frame.st.races[r].candidates[k])
                /\ \A r \in 1..Len(frame.result) :
                       \A k \in 1..Len(frame.result[r].candidates) :
                           regular(frame.result[r].candidates[k])
                               => TotalIsPartySum(frame.result[r].candidates[k])

\* the canvass parser returned a fusion candidate
C26_Witness ==
    /\ parser = "CanvassPDFParser"
    /\ inv[1].outcome = "returned"
    /\ Len(inv[1].result) = 1
    /\ \E k \in 1..Len(inv[1].result[1].candidates) :
           inv[1].result[1].candidates[k] =
               Candidate("Jane Doe", <<PartyLine("Democratic", 5), PartyLine("Conservative", 3)>>, 8)

\* ------------------------------------------------------------------------
\* base.py: the legacy extractor, parse_races with greene_format False
\* ------------------------------------------------------------------------
\* config.py: STANDARD_PARTIES; known_parties of a county without local
\* parties
STANDARD_PARTIES ==
    {"Democratic", "Republican", "Conservative", "Working Families", "Independence",
     "Liberal", "Green", "Libertarian", "Reform"}

\* Lines 236-246: the lines skipped as headers
Legacy_is_header_line(line) ==
    \/ (\E i \in 1..Len(line) : line[i] = "Summary") /\ (\E i \in 1..Len(line) : line[i] = "County")
    \/ ContainsPhrase(line, <<"2025", "General", "Election">>)
    \/ ContainsPhrase(line, <<"General", "Election", "2025">>)
    \/ ContainsPhrase(line, <<"Last", "Updated:">>)
    \/ StartsWith(line, <<"November", "04,", "2025">>)
    \/ line[1] \in FileTokens
    \/ ContainsPhrase(line, <<"Official", "Results">>)
    \/ ContainsPhrase(line, <<"Contest", "Overview", "Report">>)

\* Lines 293-328: a labelled count; int() of the last token is not guarded
LegacyCount(st, line, field, min_parts) ==
    IF Len(line) >= min_parts
    THEN IF IntParses(line[Len(line)])
         THEN [st EXCEPT !.current_race = [@ EXCEPT ![field] = IntVal[line[Len(line)]]]]
         ELSE [st EXCEPT !.exc = "ValueError"]
    ELSE st

\* Lines 294-296, 303-305: the pending candidate is appended to the race
LegacyFlush(st) ==
    IF st.current_candidate # None
    THEN [st EXCEPT !.current_race = AddCandidate(@, st.current_candidate),
                    !.current_candidate = None]
    ELSE st

\* parse_candidate_line (lines 30-129) and its call (lines 384-389): the
\* caller stores the returned candidate, which is None after a Yes/No, a
\* write-in, an inline-party and a name-only candidate line
Legacy_parse_candidate_line(st, line) ==
    IF Len(line) < 2 \/ ~IsDigit(line[Len(line)]) THEN st
    ELSE
    LET prefix == SubSeq(line, 1, Len(line) - 1)
        votes == IntVal[line[Len(line)]]
        tokens == prefix
        n == Len(tokens)
    IN
    IF prefix \in {<<"YES">>, <<"NO">>, <<"Yes">>, <<"No">>}
    THEN [st EXCEPT !.current_race = AddCandidate(@, Candidate(JoinTokens(prefix), <<>>, votes)),
                    !.current_candidate = None]
    ELSE IF \/ \E i \in 1..Len(prefix) : prefix[i] \in {"(Write-In)", "(Write-in)"}
            \/ prefix[1] = "Write-in"
    THEN [st EXCEPT !.current_race =
              AddCandidate(@, Candidate(
                  JoinTokens(SelectSeq(prefix, LAMBDA t : t \notin {"(Write-In)", "(Write-in)"})),
                  <<>>, votes)),
                    !.current_candidate = None]
    ELSE IF JoinTokens(prefix) \in STANDARD_PARTIES
    THEN LET cc == IF st.current_candidate = None THEN Candidate("", <<>>, 0)
                   ELSE st.current_candidate
         IN [st EXCEPT !.current_candidate =
                 [cc EXCEPT !.party_lines = Append(@, PartyLine(JoinTokens(prefix), votes))]]
    ELSE IF n >= 3 /\ JoinTokens(SubSeq(tokens, n - 1, n)) \in STANDARD_PARTIES
    THEN [st EXCEPT !.current_race =
              AddCandidate(@, Candidate(JoinTokens(SubSeq(tokens, 1, n - 2)),
                  <<PartyLine(JoinTokens(SubSeq(tokens, n - 1, n)), votes)>>, votes)),
                    !.current_candidate = None]
    ELSE IF n >= 2 /\ tokens[n] \in STANDARD_PARTIES
    THEN [st EXCEPT !.current_race =
              AddCandidate(@, Candidate(JoinTokens(SubSeq(tokens, 1, n - 1)),
                  <<PartyLine(tokens[n], votes)>>, votes)),
                    !.current_candidate = None]
    ELSE IF n >= 2 /\ \A i \in 1..n : StartsUpper(tokens[i])
    THEN [st EXCEPT !.current_race = AddCandidate(@, Candidate(JoinTokens(prefix), <<>>, votes)),
                    !.current_candidate = None]
    ELSE st

\* The body of the loop over lines (lines 229-389) for one raw line; prev is
\* lines[i - 1] of the page ('' when i = 0)
LegacyLine(st, line, prev) ==
    IF line = <<>> \/ Legacy_is_header_line(line) THEN st
    ELSE
    LET vote_for == Standard_extract_vote_for(line) IN
    IF vote_for # NoMatch
    THEN LET flush == st.current_race # None /\ st.current_candidate # None
             closed == IF flush THEN AddCandidate(st.current_race, st.current_candidate)
                       ELSE st.current_race
         IN ParseState(IF st.current_race # None THEN Append(st.races, closed) ELSE st.races,
                       StandardRace(JoinTokens(prev), vote_for),
                       IF flush THEN None ELSE st.current_candidate,
                       TRUE, "")
    ELSE IF ~st.in_race THEN st
    ELSE IF line = <<"TOTAL">> THEN st
    ELSE IF StartsWith(line, <<"Write-in">>)
    THEN LegacyCount(LegacyFlush(st), line, "write_in", 2)
    ELSE IF StartsWith(line, <<"Total", "Votes", "Cast">>)
    THEN LegacyCount(LegacyFlush(st), line, "total_votes_cast", 4)
    ELSE IF StartsWith(line, <<"Under", "Votes">>) \/ line[1] = "Undervotes:"
    THEN LegacyCount(st, line, "under_votes", 2)
    ELSE IF StartsWith(line, <<"Over", "Votes">>) \/ line[1] = "Overvotes:"
    THEN LegacyCount(st, line, "over_votes", 2)
    ELSE IF StartsWith(line, <<"Total", "Ballots", "Cast">>)
    THEN LET counted == LegacyCount(st, line, "total_ballots_cast", 4)
         IN IF counted.exc # "" THEN counted ELSE [counted EXCEPT !.in_race = FALSE]
    ELSE IF \/ StartsWith(line, <<"Times", "Cast:">>)
            \/ StartsWith(line, <<"Double", "Votes:">>)
            \/ ContainsPhrase(line, <<"Precincts", "reported:">>)
    THEN st
    ELSE IF \E i \in 2..(Len(line) - 1) : line[i] = "Total"
    THEN LET k == LastTotal(line)
             name == JoinTokens(SubSeq(line, 1, k - 1))
             total_str == SubSeq(line, k + 1, Len(line))
         IN IF Len(total_str) = 1 /\ IntParses(total_str[1])
            THEN LET total == IntVal[total_str[1]]
                     candidate == IF st.current_candidate # None
                                  THEN [st.current_candidate EXCEPT
                                            !.name = name, !.total_votes = total]
                                  ELSE Candidate(name, <<>>, total)
                 IN [st EXCEPT !.current_race = AddCandidate(@, candidate),
                               !.current_candidate = None]
            ELSE st
    ELSE Legacy_parse_candidate_line(st, line)

\* Lines 229-389: the loop over the lines of a page, from lines[k] on
RECURSIVE LegacyLoop(_, _, _)
LegacyLoop(st, lines, k) ==
    IF k > Len(lines) \/ st.exc # "" THEN st
    ELSE LegacyLoop(LegacyLine(st, lines[k], IF k = 1 THEN <<>> ELSE lines[k - 1]),
                    lines, k + 1)

\* parse_races (lines 213-397) over a document of one page: how it ends and
\* what it returns
Legacy_parse_races(lines) ==
    LET st == LegacyLoop(ParseState(<<>>, None, None, FALSE, ""), lines, 1) IN
    IF st.exc # "" THEN [outcome |-> "raised", races |-> <<>>]
    ELSE [outcome |-> "returned", races |-> StandardFinish(st)]

\* StandardPDFParser._parse_races over the same page
Standard_parse_races(lines) ==
    LET frame == ParseAlone("StandardPDFParser", lines) IN
    [outcome |-> frame.outcome, races |-> frame.result]

\* ------------------------------------------------------------------------
\* Specification of the two extractors applied to one document of up to
\* MaxLegacyLines lines, whose party names both know
\* ------------------------------------------------------------------------
MaxLegacyLines == 4

LegacyLines ==
    { <<"Vote", "For", "1">>,
      <<"Democratic", "5">>,
      <<"Republican", "3">>,
      <<"Jane", "Doe", "Total", "8">>,
      <<"John", "Roe", "Republican", "3">>,
      <<"YES", "5">>,
      <<"Ann", "Lee", "(Write-In)", "2">>,
      <<"Total", "Votes", "Cast", "9">> }

InitLegacy ==
    /\ input \in SeqUpTo(LegacyLines, MaxLegacyLines)
    /\ output = [standard |-> None, legacy |-> None]
    /\ inv = <<>>
    /\ data = NoData
    /\ validation = Pending
    /\ ParseIdle
    /\ TableIdle
    /\ CountyIdle

\* StandardPDFParser parses the document
RunStandard ==
    /\ output.standard = None
    /\ output' = [output EXCEPT !.standard = Result(Standard_parse_races(input))]
    /\ UNCHANGED <<input, inv, valVars, parseVars, tableVars, countyVars>>

\* base.parse_races parses the document
RunLegacy ==
    /\ output.legacy = None
    /\ output' = [output EXCEPT !.legacy = Result(Legacy_parse_races(input))]
    /\ UNCHANGED <<input, inv, valVars, parseVars, tableVars, countyVars>>

NextLegacy == RunStandard \/ RunLegacy

SpecLegacy == InitLegacy /\ [][NextLegacy]_vars

\* ---- C28 --------------------------------------------------------------
\* The title of a race and the name, total and party-line votes of each of
\* its candidates
VotesOf(race_list) ==
    [r \in 1..Len(race_list) |->
        [race_title |-> race_list[r].race_title,
         candidates |->
             [k \in 1..Len(race_list[r].candidates) |->
                 [name |-> race_list[r].candidates[k].name,
                  total_votes |-> race_list[r].candidates[k].total_votes,
                  votes |-> [j \in 1..Len(race_list[r].candidates[k].party_lines) |->
                                race_list[r].candidates[k].party_lines[j].votes]]]]]

\* C28: over a sequence of lines whose parties both implementations know,
\* base.parse_races and StandardPDFParser._parse_races return the same
\* races with the same candidate names, totals and party-line votes; the
\* party lines pending when a Yes/No, write-in or inline-party candidate line
\* is read are kept by both.
C28_LegacyAgreesWithStandard ==
    (output.standard # None /\ output.legacy # None) =>
        /\ output.legacy.result.outcome = output.standard.result.outcome
        /\ VotesOf(output.legacy.result.races) = VotesOf(output.standard.result.races)


\* ------------------------------------------------------------------------
\* parsers.py: the repair of a candidate-name cell of a table whose first
\* header row holds the parties (_parse_column_headers, lines 1037-1060)
\* ------------------------------------------------------------------------
\* Lines 1054-1057: one whitespace-separated word of a part of the cell
HeaderFixWord(word) ==
    IF is_word_likely_mirrored(word) THEN Reverse(word) ELSE word

\* Lines 1047-1058: one line of the cell; a line that is only a slash is kept
HeaderFixPart(part) ==
    IF part = <<<<"/">>>> THEN part
    ELSE [k \in 1..Len(part) |-> HeaderFixWord(part[k])]

\* ' '.join of the parts: the words of all lines in one sequence
RECURSIVE JoinParts(_)
JoinParts(parts) ==
    IF parts = <<>> THEN <<>> ELSE Head(parts) \o JoinParts(Tail(parts))

\* Lines 1041-1060: the candidate name of a cell given as its lines
header_candidate_name(cell) ==
    JoinParts([k \in 1..Len(cell) |-> HeaderFixPart(cell[k])])

\* _fix_mirrored_words over the text of the same cell: the repaired words
\* of its lines
text_candidate_name(cell) ==
    JoinParts([k \in 1..Len(cell) |-> fix_mirrored_words(cell[k])])

\* ------------------------------------------------------------------------
\* Specification of the two repairs applied to one name cell of up to
\* MaxNameLines lines
\* ------------------------------------------------------------------------
MaxNameLines == 2

NameLines ==
    { <<<<"N", "A", "M", "D", "O", "O", "G">>>>,
      <<<<"W", "A", "L", "Z">>>>,
      <<<<"/">>>>,
      <<<<"N", "A", "V", "E">>, <<"/">>, <<"S", "I", "R", "R", "A", "H">>>>,
      <<<<"n", "a", "v", "e">>>>,
      <<<<"N", "N", "A", "M", "F", "F", "O", "H">>>>,
      <<<<"A", "V", "A", "F", "-", "L", "A", "H", "I", "T", "S", "A", "P">>>>,
      <<<<"A", "V", "A", "F", "-", "1", "2">>>>,
      <<<<"S", "M", "I", "T", "H", "-", "J", "O", "N", "E", "S">>>>,
      <<<<"D", "W", "T">>, <<"J", "R">>>> }

InitHeaderNames ==
    /\ input \in SeqUpTo(NameLines, MaxNameLines)
    /\ output = [table |-> None, text |-> None]
    /\ inv = <<>>
    /\ data = NoData
    /\ validation = Pending
    /\ ParseIdle
    /\ TableIdle
    /\ CountyIdle

\* _parse_column_headers repairs the name of the cell
RepairHeaderName ==
    /\ output.table = None
    /\ output' = [output EXCEPT !.table = Result(header_candidate_name(input))]
    /\ UNCHANGED <<input, inv, valVars, parseVars, tableVars, countyVars>>

\* _fix_mirrored_words repairs the text of the cell
RepairTextName ==
    /\ output.text = None
    /\ output' = [output EXCEPT !.text = Result(text_candidate_name(input))]
    /\ UNCHANGED <<input, inv, valVars, parseVars, tableVars, countyVars>>

NextHeaderNames == RepairHeaderName \/ RepairTextName

SpecHeaderNames == InitHeaderNames /\ [][NextHeaderNames]_vars

\* ---- C29 --------------------------------------------------------------
\* C29: every token of a candidate-name cell is repaired by the table
\* reconstructor to the token the text repair gives, hyphenated tokens
\* included (each hyphen segment repaired on its own), and a '/' token is
\* kept as it is.
C29_HeaderRepairIsTextRepair ==
    (output.table # None /\ output.text # None) =>
        /\ output.table.result = output.text.result
        /\ \A k \in 1..Len(JoinParts(input)) :
               JoinParts(input)[k] = <<"/">> => output.table.result[k] = <<"/">>


\* ---- C30 --------------------------------------------------------------
\* The summary field a row label stands for ("" when none), and the rows of
\* a page that carry a value for a field
SummaryFields ==
    {"under_votes", "over_votes", "write_in", "total_votes_cast", "total_ballots_cast"}

TableSummaryField(label) ==
    IF label = <<>> THEN ""
    ELSE IF LabelContains(label, "BLANK") THEN "under_votes"
    ELSE IF LabelContains(label, "VOID") THEN "over_votes"
    ELSE IF LabelContains(label, "SCATTERING") \/ LabelContains(label, "WRITE") THEN "write_in"
    ELSE IF LabelContains(label, "TOTAL") /\ LabelContains(label, "VOTE") THEN "total_votes_cast"
    ELSE IF LabelContains(label, "TOTAL") /\ LabelContains(label, "BALLOT")
    THEN "total_ballots_cast"
    ELSE ""

RowsOfField(rows, field) ==
    {s \in 1..Len(rows) : TableSummaryField(rows[s].label) = field /\ SummaryValue(rows[s]) # NoMatch}

\* C30: after a page of a race is read, each of under_votes, over_votes,
\* write_in, total_votes_cast and total_ballots_cast of the open race holds
\* the value of the last row of the page labelled for it (BLANK, VOID,
\* SCATTERING or WRITE, TOTAL with VOTE, TOTAL with BALLOT), at whatever
\* row of the page that row sits and however many rows lie before it.
C30_SummaryRowsReadAnywhere ==
    (outcome = "running" /\ doc # <<>> /\ doc[Len(doc)].race_title # ""
        /\ doc[Len(doc)].has_tables) =>
        \A field \in SummaryFields :
            LET rows == doc[Len(doc)].rows
                idx == RowsOfField(rows, field)
            IN idx # {} =>
                   current_race[field] =
                       SummaryValue(rows[CHOOSE s \in idx : \A t \in idx : t <= s])

\* ------------------------------------------------------------------------
\* Specification of StandardPDFParser reading one line 'tokens votes' while
\* a race is open, with or without a pending candidate: the body of the
\* loop over lines applied once
\* ------------------------------------------------------------------------
MaxNameTokens == 3

NameTokens ==
    {"Jane", "Doe", "Working", "Families", "Democratic", "van", "Total", "(Write-In)"}

OpenRaceLines ==
    {prefix \o <<"4">> : prefix \in SeqUpTo(NameTokens, MaxNameTokens) \ {<<>>}}

\* The locals after the lines 'Sheriff', 'Vote For 1' and, for a pending
\* candidate, 'Democratic 5'
OpenRaceState(pending) == ParseState(<<>>, StandardRace("Sheriff", 1), pending, TRUE, "")

InitOpenRace ==
    /\ input \in [line : OpenRaceLines,
                  pending : {None, Candidate("", <<PartyLine("Democratic", 5)>>, 0)}]
    /\ output = None
    /\ inv = <<>>
    /\ data = NoData
    /\ validation = Pending
    /\ ParseIdle
    /\ TableIdle
    /\ CountyIdle

\* The loop reads the line
ReadInOpenRace ==
    /\ output = None
    /\ output' = Result(StandardLine(OpenRaceState(input.pending), input.line, <<>>))
    /\ UNCHANGED <<input, inv, valVars, parseVars, tableVars, countyVars>>

NextOpenRace == ReadInOpenRace

SpecOpenRace == InitOpenRace /\ [][NextOpenRace]_vars

\* The tokens before the votes, and the votes
PrefixOf(line) == SubSeq(line, 1, Len(line) - 1)
VotesOfLine(line) == IntVal[line[Len(line)]]

\* Every token begins with a capital letter
Capitalized(tokens) == \A i \in 1..Len(tokens) : StartsUpper(tokens[i])

\* The line is a header, a race marker, a summary line, a 'Name Total N'
\* line, a Yes/No line, a write-in line or a party line
EarlierPattern(line) ==
    \/ Standard_is_header_line(line)
    \/ Standard_extract_vote_for(line) # NoMatch
    \/ line = <<"TOTAL">>
    \/ Standard_parse_summary_line(line, StandardRace("", 1)).matched
    \/ \E i \in 2..(Len(line) - 1) : line[i] = "Total"
    \/ PrefixOf(line) \in {<<"YES">>, <<"NO">>, <<"Yes">>, <<"No">>}
    \/ \E i \in 1..(Len(line) - 1) : line[i] \in {"(Write-In)", "(Write-in)"}
    \/ is_known_party(PrefixOf(line))

\* The line ends in a known party of one or two words after a name
EndsInParty(line) ==
    LET tokens == PrefixOf(line)
        n == Len(tokens)
    IN \/ n >= 3 /\ is_known_party(SubSeq(tokens, n - 1, n))
       \/ n >= 2 /\ is_known_party(<<tokens[n]>>)

\* The candidates the line added to the open race
AddedCandidates == output.result.current_race.candidates

\* ---- C31 --------------------------------------------------------------
\* C31 as stated: while a race is open, a line ending in a number whose
\* preceding tokens, one or more, are all capitalized and that matches no
\* other pattern adds a candidate named by those tokens, with the number as
\* total_votes and no party line.
C31_NameOfAnyLengthAccepted ==
    (output # None /\ IsDigit(input.line[Len(input.line)])
        /\ Len(PrefixOf(input.line)) >= 1 /\ Capitalized(PrefixOf(input.line))
        /\ ~EarlierPattern(input.line) /\ ~EndsInParty(input.line)) =>
        AddedCandidates =
            <<Candidate(JoinTokens(PrefixOf(input.line)), <<>>, VotesOfLine(input.line))>>

\* C31 amended: the same for two or more capitalized tokens.
C31_NameOfTwoTokensAccepted ==
    (output # None /\ IsDigit(input.line[Len(input.line)])
        /\ Len(PrefixOf(input.line)) >= 2 /\ Capitalized(PrefixOf(input.line))
        /\ ~EarlierPattern(input.line) /\ ~EndsInParty(input.line)) =>
        AddedCandidates =
            <<Candidate(JoinTokens(PrefixOf(input.line)), <<>>, VotesOfLine(input.line))>>

C31_Witness ==
    /\ output # None
    /\ input.line = <<"Jane", "Doe", "4">>
    /\ input.pending # None
    /\ AddedCandidates = <<Candidate("Jane Doe", <<>>, 4)>>

\* ---- C36 --------------------------------------------------------------
\* C36: a line 'name party votes' whose last two tokens before the votes are
\* a known party phrase adds a candidate whose name is the tokens before the
\* phrase and whose one party line has the display name of the phrase in the
\* canonical table and the votes of the line, which are also its total.
C36_TwoTokenPartyFirst ==
    (output # None /\ IsDigit(input.line[Len(input.line)])
        /\ Len(PrefixOf(input.line)) >= 3
        /\ is_known_party(SubSeq(input.line, Len(input.line) - 2, Len(input.line) - 1))
        /\ ~EarlierPattern(input.line)) =>
        LET n == Len(input.line) - 1
            phrase == SubSeq(input.line, n - 1, n)
        IN /\ Len(AddedCandidates) = 1
           /\ AddedCandidates[1].name = JoinTokens(SubSeq(input.line, 1, n - 2))
           /\ AddedCandidates[1].total_votes = VotesOfLine(input.line)
           /\ Len(AddedCandidates[1].party_lines) = 1
           /\ AddedCandidates[1].party_lines[1].votes = VotesOfLine(input.line)
           /\ \E canonical \in DOMAIN CANONICAL_PARTIES :
                  /\ NormalizedPhrase(phrase) \in {canonical} \cup PARTY_ALIASES[canonical]
                  /\ AddedCandidates[1].party_lines[1].party = CANONICAL_PARTIES[canonical]

C36_Witness ==
    /\ output # None
    /\ input.line = <<"Jane", "Working", "Families", "4">>
    /\ AddedCandidates = <<Candidate("Jane", <<PartyLine("Working Families", 4)>>, 4)>>

\* ------------------------------------------------------------------------
\* Specification of CanvassPDFParser: one invocation of _parse_races over a
\* statement of canvass of up to MaxCanvassLines lines
\* ------------------------------------------------------------------------
MaxCanvassLines == 4

CanvassLines ==
    { <<"votes", "for", "the", "office", "of">>,
      <<"Sheriff,", "was", "9">>,
      <<"votes", "for", "the", "office", "of", "Clerk,", "was", "9">>,
      <<"Ann", "Lee", "Democratic", "received", "5">>,
      <<"Ann", "Lee", "Conservative", "received", "3">>,
      <<"Write-in", "-", "Ann", "Lee", "received", "1">> }

InitCanvass ==
    /\ parser = "CanvassPDFParser"
    /\ inv = <<NewFrame("CanvassPDFParser")>>
    /\ input = None
    /\ output = None
    /\ registry = HUDSON_VALLEY_COUNTIES
    /\ county_id = ""
    /\ election_date = ""
    /\ dry_run = FALSE
    /\ force = FALSE
    /\ pc = "idle"
    /\ source = ""
    /\ saved = FALSE
    /\ returned = "pending"
    /\ data = NoData
    /\ validation = Pending
    /\ ParseIdle
    /\ TableIdle

\* One iteration of the loop over the lines
CanvassReads(line) ==
    /\ inv[1].outcome = "running"
    /\ Len(inv[1].fed) < MaxCanvassLines
    /\ inv' = InvocationStep(inv, 1, line)
    /\ UNCHANGED <<input, output, valVars, parseVars, tableVars, countyVars>>

\* The document ends: the list is returned
CanvassReturns ==
    /\ inv[1].outcome = "running"
    /\ inv' = InvocationEnd(inv, 1)
    /\ UNCHANGED <<input, output, valVars, parseVars, tableVars, countyVars>>

NextCanvass ==
    \/ \E line \in CanvassLines : CanvassReads(line)
    \/ CanvassReturns

SpecCanvass == InitCanvass /\ [][NextCanvass]_vars

\* ---- C32 --------------------------------------------------------------
\* A line 'Write-in - <name> received <votes>'
IsWriteInLine(line) ==
    /\ StartsWith(line, <<"Write-in", "-">>)
    /\ Cardinality(ReceivedAt(line)) = 1
    /\ ReceivedPosition(line) = Len(line) - 1
    /\ IsDigit(line[Len(line)])

WriteInName(line) == JoinTokens(SubSeq(line, 3, ReceivedPosition(line) - 1))

\* C32: a line 'Write-in - <name> received <votes>' read in an open race
\* leaves in the race a candidate 'Write-in - <name>' with the votes of the
\* line and no party line, and leaves every other candidate of the race, a
\* regular candidate named <name> included, as it was.
C32_WriteInKeptApart ==
    [][(/\ inv[1].outcome = "running"
        /\ inv'[1].outcome = "running"
        /\ Len(inv'[1].fed) = Len(inv[1].fed) + 1
        /\ IsWriteInLine(inv'[1].fed[Len(inv'[1].fed)])
        /\ inv[1].st.current_race # None) =>
           LET line == inv'[1].fed[Len(inv'[1].fed)]
               key == "Write-in - " \o WriteInName(line)
               before == inv[1].st.candidate_dict
               after == inv'[1].st.candidate_dict
           IN /\ \E k \in 1..Len(after) :
                     after[k] = Candidate(key, <<>>, IntVal[line[Len(line)]])
              /\ \A k \in 1..Len(before) :
                     before[k].name # key => after[k] = before[k]
              /\ \A k \in 1..Len(after) :
                     after[k].name = WriteInName(line) =>
                         (k <= Len(before) /\ before[k] = after[k])]_vars

\* the regular candidate and the write-in of the same name are returned side
\* by side
C32_Witness ==
    /\ inv[1].outcome = "returned"
    /\ Len(inv[1].result) = 1
    /\ inv[1].result[1].candidates =
           <<Candidate("Ann Lee", <<PartyLine("Democratic", 5)>>, 5),
             Candidate("Write-in - Ann Lee", <<>>, 1)>>

\* ---- C33 --------------------------------------------------------------
\* The tokens of an intro line after 'the office of'
AfterOfficeOf(line) ==
    LET i == CHOOSE k \in 1..(Len(line) - 2) : SubSeq(line, k, k + 2) = <<"the", "office", "of">>
    IN  SubSeq(line, i + 3, Len(line))

IsIntro(line) == ContainsPhrase(line, <<"the", "office", "of">>)

\* The titles of the intro sentences '... the office of <title>, was ...'
\* of the lines from position k on: the title stands on the line of 'the
\* office of' or on the line after it
RECURSIVE IntroTitles(_, _)
IntroTitles(lines, k) ==
    IF k > Len(lines) THEN <<>>
    ELSE IF IsIntro(lines[k]) /\ HasTitleEnd(AfterOfficeOf(lines[k]))
    THEN <<CanvassTitle(AfterOfficeOf(lines[k]))>> \o IntroTitles(lines, k + 1)
    ELSE IF /\ IsIntro(lines[k]) /\ k + 1 <= Len(lines)
            /\ ~IsIntro(lines[k + 1]) /\ HasTitleEnd(lines[k + 1])
    THEN <<CanvassTitle(lines[k + 1])>> \o IntroTitles(lines, k + 2)
    ELSE IntroTitles(lines, k + 1)

\* The name under which a candidate line is filed
CandidateLineName(line) ==
    IF StartsWith(line, <<"Write-in", "-">>) THEN "Write-in - " \o WriteInName(line)
    ELSE JoinTokens(CanvassScan(SubSeq(line, 1, ReceivedPosition(line) - 1),
                                ReceivedPosition(line) - 1, <<>>, <<>>, FALSE).name_parts)

\* C33: the returned races are, in order, the races of the intro sentences
\* of the document, one race per sentence and titled by it, whether the
\* title and ', was' stand on the line of 'the office of' or on the next
\* line; a candidate line is filed in the race of the last intro sentence
\* before it.
C33_OneRacePerIntro ==
    inv[1].outcome = "returned" =>
        LET lines == inv[1].fed
            result == inv[1].result
        IN /\ [r \in 1..Len(result) |-> result[r].race_title] = IntroTitles(lines, 1)
           /\ \A k \in 1..Len(lines) :
                  LET r == Len(IntroTitles(SubSeq(lines, 1, k - 1), 1)) IN
                  (ReceivedAt(lines[k]) # {} /\ r >= 1) =>
                      /\ r <= Len(result)
                      /\ \E c \in 1..Len(result[r].candidates) :
                             result[r].candidates[c].name = CandidateLineName(lines[k])

\* ------------------------------------------------------------------------
\* Specification of _is_word_likely_mirrored applied to one word of
\* MinMirrorLen to MaxLetters letters
\* ------------------------------------------------------------------------
MaxLetters == 5

HeuristicLetters == {"N", "A", "M", "S", "O", "V", "n"}

InitHeuristic ==
    /\ input \in UNION {[1..k -> HeuristicLetters] : k \in MinMirrorLen..MaxLetters}
    /\ output = None
    /\ inv = <<>>
    /\ data = NoData
    /\ validation = Pending
    /\ ParseIdle
    /\ TableIdle
    /\ CountyIdle

\* The heuristic is asked about the word
AskMirrored ==
    /\ output = None
    /\ output' = Result(is_word_likely_mirrored(input))
    /\ UNCHANGED <<input, inv, valVars, parseVars, tableVars, countyVars>>

NextHeuristic == AskMirrored

SpecHeuristic == InitHeuristic /\ [][NextHeuristic]_vars

\* ---- C34 --------------------------------------------------------------
\* The word begins with an entry of the curated list
Curated(word_upper) == \E pattern \in rare_starts : HasPrefix(word_upper, pattern)

\* C34: a word that the heuristic accepts without beginning with a curated
\* entry begins, in upper case, with 'NNA', so its reversal ends in 'ANN';
\* no word has a doubled first letter and a reversal that ends in MAN, SON,
\* VER, TON, LER, HAM or VAN.
C34_GeneralBranchOnlyNNA ==
    output # None =>
        /\ (output.result /\ ~Curated(Upper(input))) =>
               /\ HasPrefix(Upper(input), <<"N", "N", "A">>)
               /\ HasSuffix(Reverse(Upper(input)), <<"A", "N", "N">>)
        /\ \A s \in NameSuffixes \ {<<"A", "N", "N">>} :
               ~(/\ Upper(input)[1] = Upper(input)[2]
                 /\ HasSuffix(Reverse(Upper(input)), s)
                 /\ output.result /\ ~Curated(Upper(input)))

C34_Witness ==
    /\ output # None
    /\ output.result
    /\ input = <<"n", "N", "A", "M">>

\* ------------------------------------------------------------------------
\* Specification of _fix_mirrored_words applied to a text of up to
\* MaxTextLines lines of up to MaxTextWords words
\* ------------------------------------------------------------------------
MaxTextLines == 2
MaxTextWords == 2

TextWords ==
    { <<"N", "A", "V", "E">>, <<"A", "V", "A", "F", "-", "1", "2">>,
      <<"I", "N", "D", "E", "X">> }

\* Lines 55-83: the text line by line
fix_mirrored_text(lines) == [k \in 1..Len(lines) |-> fix_mirrored_words(lines[k])]

InitMirrorText ==
    /\ input \in SeqUpTo(SeqUpTo(TextWords, MaxTextWords), MaxTextLines)
    /\ output = None
    /\ inv = <<>>
    /\ data = NoData
    /\ validation = Pending
    /\ ParseIdle
    /\ TableIdle
    /\ CountyIdle

\* The repair is applied to the text
FixMirroredText ==
    /\ output = None
    /\ output' = Result(fix_mirrored_text(input))
    /\ UNCHANGED <<input, inv, valVars, parseVars, tableVars, countyVars>>

NextMirrorText == FixMirroredText

SpecMirrorText == InitMirrorText /\ [][NextMirrorText]_vars

\* ---- C35 --------------------------------------------------------------
\* The two tokens hold the same characters the same number of times
SameCharacters(a, b) ==
    \A c \in {a[i] : i \in 1..Len(a)} \cup {b[i] : i \in 1..Len(b)} :
        Cardinality({i \in 1..Len(a) : a[i] = c}) = Cardinality({i \in 1..Len(b) : b[i] = c})

\* C35: the repaired text has as many lines as the text, each line has as
\* many tokens as the line it comes from, and the token at each position has
\* the length and the characters, counted with repetition, of the token at
\* that position of the text.
C35_RepairKeepsShape ==
    output # None =>
        /\ Len(output.result) = Len(input)
        /\ \A k \in 1..Len(input) :
               /\ Len(output.result[k]) = Len(input[k])
               /\ \A w \in 1..Len(input[k]) :
                      /\ Len(output.result[k][w]) = Len(input[k][w])
                      /\ SameCharacters(output.result[k][w], input[k][w])

\* a text of two lines in which a word and a part of a hyphenated word were
\* reversed
C35_Witness ==
    /\ output # None
    /\ input = << << <<"N", "A", "V", "E">>, <<"I", "N", "D", "E", "X">> >>,
                  << <<"A", "V", "A", "F", "-", "1", "2">> >> >>
    /\ output.result = << << <<"E", "V", "A", "N">>, <<"I", "N", "D", "E", "X">> >>,
                          << <<"F", "A", "V", "A", "-", "1", "2">> >> >>

\* ------------------------------------------------------------------------
\* parsers.py: HTMLParser._parse_race.  A race section is its title ("" when
\* it has no h5.race-title) and its div.candidate-row elements in document
\* order; a row is the texts of its direct child divs, of which the first is
\* the div.candidate-name, and the party of the badge inside its
\* div.candidate-party (<<>> when there is none); in_box says that the row is
\* the first row of a div.candidate-box, whose div.candidate-details are the
\* details.
\* ------------------------------------------------------------------------
HtmlRow(divs, badge) == [divs |-> divs, badge |-> badge]
HtmlDetail(badge, divs) == [badge |-> badge, divs |-> divs]
HtmlItem(in_box, row, details) == [in_box |-> in_box, row |-> row, details |-> details]
HtmlSection(title, items) == [title |-> title, items |-> items]

\* Lines 643-665: the party lines of the detail rows from position k on
RECURSIVE HtmlDetailLines(_, _)
HtmlDetailLines(details, k) ==
    IF k > Len(details) THEN <<>>
    ELSE LET detail_row == details[k] IN
         IF \/ detail_row.badge = <<>>
            \/ Len(detail_row.divs) < 2
            \/ ~IntParses(detail_row.divs[2])
         THEN HtmlDetailLines(details, k + 1)
         ELSE <<PartyLine(get_display_name(normalize_party(detail_row.badge)),
                          IntVal[detail_row.divs[2]])>>
              \o HtmlDetailLines(details, k + 1)

\* Lines 589-672: the body of the loop over the candidate boxes
HtmlCandidateBox(st, item) ==
    LET main_row == item.row
        name == main_row.divs[1]
    IN
    IF name = "Candidate Votes"
    THEN IF Len(main_row.divs) < 3 THEN [st EXCEPT !.exc = "IndexError"]
         ELSE IF ~IntParses(main_row.divs[3]) THEN [st EXCEPT !.exc = "ValueError"]
         ELSE [st EXCEPT !.race.total_votes_cast = IntVal[main_row.divs[3]]]
    ELSE IF Len(main_row.divs) < 3 THEN st
    ELSE IF ~IntParses(main_row.divs[3]) THEN st
    ELSE
    LET total_votes == IntVal[main_row.divs[3]] IN
    IF name = "Write-In" THEN [st EXCEPT !.race.write_in = total_votes]
    ELSE
    LET single == IF main_row.badge # <<>> /\ main_row.badge # <<"Write-In">>
                  THEN <<PartyLine(get_display_name(normalize_party(main_row.badge)),
                                   total_votes)>>
                  ELSE <<>>
        party_lines == single \o HtmlDetailLines(item.details, 1)
    IN [st EXCEPT !.race = AddCandidate(@, Candidate(name, party_lines, total_votes))]

\* Lines 676-700: the body of the loop over the rows of the section
HtmlSummaryRow(st, row) ==
    IF Len(row.divs) < 2 \/ ~IntParses(row.divs[2]) THEN st
    ELSE
    LET name == row.divs[1]
        votes == IntVal[row.divs[2]]
    IN IF name = "Unqualified Write-In" THEN [st EXCEPT !.race.write_in = @ + votes]
       ELSE IF name = "Voids" THEN [st EXCEPT !.race.over_votes = votes]
       ELSE IF name = "Blanks" THEN [st EXCEPT !.race.under_votes = votes]
       ELSE IF name = "Total All Votes" THEN [st EXCEPT !.race.total_ballots_cast = votes]
       ELSE st

\* The two loops of _parse_race, from item k on
RECURSIVE HtmlBoxes(_, _, _)
HtmlBoxes(st, items, k) ==
    IF k > Len(items) \/ st.exc # "" THEN st
    ELSE HtmlBoxes(IF items[k].in_box THEN HtmlCandidateBox(st, items[k]) ELSE st, items, k + 1)

RECURSIVE HtmlSummaryRows(_, _, _)
HtmlSummaryRows(st, items, k) ==
    IF k > Len(items) THEN st
    ELSE HtmlSummaryRows(HtmlSummaryRow(st, items[k].row), items, k + 1)

\* _parse_race (lines 566-702): None for a section without a title
Html_parse_race(section) ==
    IF section.title = "" THEN [outcome |-> "returned", race |-> None]
    ELSE LET start == [race |-> StandardRace(section.title, 1), exc |-> ""]
             boxes == HtmlBoxes(start, section.items, 1)
         IN IF boxes.exc # "" THEN [outcome |-> "raised", race |-> None]
            ELSE [outcome |-> "returned",
                  race |-> HtmlSummaryRows(boxes, section.items, 1).race]

\* ------------------------------------------------------------------------
\* Specification of HTMLParser._parse_race applied to one race section of up
\* to MaxHtmlRows rows
\* ------------------------------------------------------------------------
MaxHtmlRows == 2

HtmlItems ==
    { HtmlItem(TRUE, HtmlRow(<<"Jane Doe", "", "5">>, <<"Democratic">>), <<>>),
      HtmlItem(TRUE, HtmlRow(<<"John Roe", "", "8">>, <<>>),
               <<HtmlDetail(<<"DEM">>, <<"", "5">>), HtmlDetail(<<"CON">>, <<"", "3">>)>>),
      HtmlItem(TRUE, HtmlRow(<<"Candidate Votes", "", "9">>, <<>>), <<>>),
      HtmlItem(TRUE, HtmlRow(<<"Candidate Votes", "9">>, <<>>), <<>>),
      HtmlItem(TRUE, HtmlRow(<<"Write-In", "", "1">>, <<>>), <<>>),
      HtmlItem(TRUE, HtmlRow(<<"Write-In", "1">>, <<>>), <<>>),
      HtmlItem(FALSE, HtmlRow(<<"Voids", "2">>, <<>>), <<>>),
      HtmlItem(TRUE, HtmlRow(<<"Voids", "2">>, <<>>), <<>>),
      HtmlItem(TRUE, HtmlRow(<<"Voids", "2", "2">>, <<>>), <<>>),
      HtmlItem(FALSE, HtmlRow(<<"Blanks", "3">>, <<>>), <<>>),
      HtmlItem(FALSE, HtmlRow(<<"Total All Votes", "9">>, <<>>), <<>>),
      HtmlItem(FALSE, HtmlRow(<<"Unqualified Write-In", "1">>, <<>>), <<>>) }

InitHtml ==
    /\ input \in {HtmlSection(title, items) :
                     title \in {"Sheriff", ""}, items \in SeqUpTo(HtmlItems, MaxHtmlRows)}
    /\ output = None
    /\ inv = <<>>
    /\ data = NoData
    /\ validation = Pending
    /\ ParseIdle
    /\ TableIdle
    /\ CountyIdle

\* The section is parsed
ParseSection ==
    /\ output = None
    /\ output' = Result(Html_parse_race(input))
    /\ UNCHANGED <<input, inv, valVars, parseVars, tableVars, countyVars>>

NextHtml == ParseSection

SpecHtml == InitHtml /\ [][NextHtml]_vars

\* ---- C37 --------------------------------------------------------------
\* The labels of the rows that are not candidates, and the field of each
SummaryLabels == {"Candidate Votes", "Write-In", "Voids", "Blanks", "Total All Votes"}

\* The last row of the section with the label and a number in the cell at
\* position cell, or 0 when there is none
LastLabelled(items, label, cell) ==
    LET idx == {k \in 1..Len(items) :
                   /\ items[k].row.divs[1] = label
                   /\ Len(items[k].row.divs) >= cell
                   /\ IntParses(items[k].row.divs[cell])}
    IN IF idx = {} THEN 0 ELSE CHOOSE k \in idx : \A j \in idx : j <= k

\* C37: the race parsed from a section has no candidate named 'Candidate
\* Votes', 'Write-In', 'Voids', 'Blanks' or 'Total All Votes'; the 'Candidate
\* Votes' row gives total_votes_cast, and the rows 'Voids', 'Blanks' and
\* 'Total All Votes' give over_votes, under_votes and total_ballots_cast.
C37_SummaryRowsAreNotCandidates ==
    (output # None /\ output.result.outcome = "returned" /\ output.result.race # None) =>
        LET race == output.result.race
            field(label, cell, name) ==
                LastLabelled(input.items, label, cell) # 0 =>
                    race[name] =
                        IntVal[input.items[LastLabelled(input.items, label, cell)].row.divs[cell]]
        IN /\ \A k \in 1..Len(race.candidates) : race.candidates[k].name \notin SummaryLabels
           /\ field("Voids", 2, "over_votes")
           /\ field("Blanks", 2, "under_votes")
           /\ field("Total All Votes", 2, "total_ballots_cast")


\* ------------------------------------------------------------------------
\* C38: once process_county has returned, get_county gives for every county
\* the registry entry it gave before the run (the entries of
\* HUDSON_VALLEY_COUNTIES as registry.py defines them); the party tables are
\* definitions of this module and no action writes them.
C38_RegistryUnchanged ==
    returned # "pending" => registry = HUDSON_VALLEY_COUNTIES


\* ------------------------------------------------------------------------
\* parties.py, character by character.  normalize_party above reads a phrase
\* by its tokens; here a party string is the sequence of its characters, so
\* that str.strip, str.lower and str.title act as Python's do.  A character
\* is a one-character string; "U+0131" (dotless i) and "U+00DF" (sharp s)
\* stand for the two characters of those code points.
\* ------------------------------------------------------------------------
\* The characters of every string of PARTY_ALIASES and CANONICAL_PARTIES
Spell ==
    ("democratic" :> <<"d", "e", "m", "o", "c", "r", "a", "t", "i", "c">>) @@
    ("Democratic" :> <<"D", "e", "m", "o", "c", "r", "a", "t", "i", "c">>) @@
    ("republican" :> <<"r", "e", "p", "u", "b", "l", "i", "c", "a", "n">>) @@
    ("Republican" :> <<"R", "e", "p", "u", "b", "l", "i", "c", "a", "n">>) @@
    ("conservative" :> <<"c", "o", "n", "s", "e", "r", "v", "a", "t", "i", "v", "e">>) @@
    ("Conservative" :> <<"C", "o", "n", "s", "e", "r", "v", "a", "t", "i", "v", "e">>) @@
    ("working families" :> <<"w", "o", "r", "k", "i", "n", "g", " ", "f", "a", "m", "i", "l", "i", "e", "s">>) @@
    ("Working Families" :> <<"W", "o", "r", "k", "i", "n", "g", " ", "F", "a", "m", "i", "l", "i", "e", "s">>) @@
    ("independence" :> <<"i", "n", "d", "e", "p", "e", "n", "d", "e", "n", "c", "e">>) @@
    ("Independence" :> <<"I", "n", "d", "e", "p", "e", "n", "d", "e", "n", "c", "e">>) @@
    ("green" :> <<"g", "r", "e", "e", "n">>) @@
    ("Green" :> <<"G", "r", "e", "e", "n">>) @@
    ("libertarian" :> <<"l", "i", "b", "e", "r", "t", "a", "r", "i", "a", "n">>) @@
    ("Libertarian" :> <<"L", "i", "b", "e", "r", "t", "a", "r", "i", "a", "n">>) @@
    ("write-in" :> <<"w", "r", "i", "t", "e", "-", "i", "n">>) @@
    ("Write-In" :> <<"W", "r", "i", "t", "e", "-", "I", "n">>) @@
    ("community 1st" :> <<"c", "o", "m", "m", "u", "n", "i", "t", "y", " ", "1", "s", "t">>) @@
    ("Community 1st" :> <<"C", "o", "m", "m", "u", "n", "i", "t", "y", " ", "1", "s", "t">>) @@
    ("larouche" :> <<"l", "a", "r", "o", "u", "c", "h", "e">>) @@
    ("LaRouche" :> <<"L", "a", "R", "o", "u", "c", "h", "e">>) @@
    ("dem" :> <<"d", "e", "m">>) @@
    ("d" :> <<"d">>) @@
    ("democrat" :> <<"d", "e", "m", "o", "c", "r", "a", "t">>) @@
    ("democrats" :> <<"d", "e", "m", "o", "c", "r", "a", "t", "s">>) @@
    ("rep" :> <<"r", "e", "p">>) @@
    ("r" :> <<"r">>) @@
    ("gop" :> <<"g", "o", "p">>) @@
    ("republicans" :> <<"r", "e", "p", "u", "b", "l", "i", "c", "a", "n", "s">>) @@
    ("con" :> <<"c", "o", "n">>) @@
    ("c" :> <<"c">>) @@
    ("conservatives" :> <<"c", "o", "n", "s", "e", "r", "v", "a", "t", "i", "v", "e", "s">>) @@
    ("wfp" :> <<"w", "f", "p">>) @@
    ("wf" :> <<"w", "f">>) @@
    ("working families party" :> <<"w", "o", "r", "k", "i", "n", "g", " ", "f", "a", "m", "i", "l", "i", "e", "s", " ", "p", "a", "r", "t", "y">>) @@
    ("working" :> <<"w", "o", "r", "k", "i", "n", "g">>) @@
    ("ind" :> <<"i", "n", "d">>) @@
    ("i" :> <<"i">>) @@
    ("gre" :> <<"g", "r", "e">>) @@
    ("g" :> <<"g">>) @@
    ("greens" :> <<"g", "r", "e", "e", "n", "s">>) @@
    ("lib" :> <<"l", "i", "b">>) @@
    ("l" :> <<"l">>) @@
    ("libertarians" :> <<"l", "i", "b", "e", "r", "t", "a", "r", "i", "a", "n", "s">>) @@
    ("wri" :> <<"w", "r", "i">>) @@
    ("w" :> <<"w">>) @@
    ("write in" :> <<"w", "r", "i", "t", "e", " ", "i", "n">>) @@
    ("writein" :> <<"w", "r", "i", "t", "e", "i", "n">>) @@
    ("community first" :> <<"c", "o", "m", "m", "u", "n", "i", "t", "y", " ", "f", "i", "r", "s", "t">>) @@
    ("community" :> <<"c", "o", "m", "m", "u", "n", "i", "t", "y">>)

\* str.lower() of one character: the upper-case ASCII letters change, every
\* other character of PartyChars and of the tables is its own lower case
LowerChar ==
    ("A" :> "a") @@ ("B" :> "b") @@ ("C" :> "c") @@ ("D" :> "d") @@ ("E" :> "e") @@ ("F" :> "f") @@
    ("G" :> "g") @@ ("H" :> "h") @@ ("I" :> "i") @@ ("J" :> "j") @@ ("K" :> "k") @@ ("L" :> "l") @@
    ("M" :> "m") @@ ("N" :> "n") @@ ("O" :> "o") @@ ("P" :> "p") @@ ("Q" :> "q") @@ ("R" :> "r") @@
    ("S" :> "s") @@ ("T" :> "t") @@ ("U" :> "u") @@ ("V" :> "v") @@ ("W" :> "w") @@ ("X" :> "x") @@
    ("Y" :> "y") @@ ("Z" :> "z")

\* str.title() of one character that starts a word: 'i' and the dotless i
\* both give 'I', the sharp s gives 'Ss'
TitleChar ==
    ("a" :> <<"A">>) @@ ("b" :> <<"B">>) @@ ("c" :> <<"C">>) @@ ("d" :> <<"D">>) @@
    ("e" :> <<"E">>) @@ ("f" :> <<"F">>) @@ ("g" :> <<"G">>) @@ ("h" :> <<"H">>) @@
    ("i" :> <<"I">>) @@ ("j" :> <<"J">>) @@ ("k" :> <<"K">>) @@ ("l" :> <<"L">>) @@
    ("m" :> <<"M">>) @@ ("n" :> <<"N">>) @@ ("o" :> <<"O">>) @@ ("p" :> <<"P">>) @@
    ("q" :> <<"Q">>) @@ ("r" :> <<"R">>) @@ ("s" :> <<"S">>) @@ ("t" :> <<"T">>) @@
    ("u" :> <<"U">>) @@ ("v" :> <<"V">>) @@ ("w" :> <<"W">>) @@ ("x" :> <<"X">>) @@
    ("y" :> <<"Y">>) @@ ("z" :> <<"Z">>) @@ ("U+0131" :> <<"I">>) @@ ("U+00DF" :> <<"S", "s">>)

\* c.isupper() or c.islower()
IsCased(c) == c \in DOMAIN LowerChar \/ c \in DOMAIN TitleChar

\* s.lower()
str_lower(s) ==
    [i \in 1..Len(s) |-> IF s[i] \in DOMAIN LowerChar THEN LowerChar[s[i]] ELSE s[i]]

\* s.title(): a character after an uncased one takes its title case, a
\* character after a cased one its lower case
RECURSIVE TitleFrom(_, _)
TitleFrom(s, previous_is_cased) ==
    IF s = <<>> THEN <<>>
    ELSE LET c == Head(s)
             t == IF previous_is_cased
                  THEN str_lower(<<c>>)
                  ELSE IF c \in DOMAIN TitleChar THEN TitleChar[c] ELSE <<c>>
         IN  t \o TitleFrom(Tail(s), IsCased(c))

str_title(s) == TitleFrom(s, FALSE)

\* Line 46 to line 58 on the characters of raw
normalize_party_text(raw) ==
    LET normalized == str_lower(Strip(raw)) IN
    IF \E canonical \in DOMAIN CANONICAL_PARTIES : Spell[canonical] = normalized
    THEN normalized
    ELSE IF \E canonical \in DOMAIN PARTY_ALIASES :
                \E alias \in PARTY_ALIASES[canonical] : Spell[alias] = normalized
    THEN Spell[CHOOSE canonical \in DOMAIN PARTY_ALIASES :
                   \E alias \in PARTY_ALIASES[canonical] : Spell[alias] = normalized]
    ELSE normalized

\* Line 71: CANONICAL_PARTIES.get(canonical.lower(), canonical.title())
get_display_name_text(canonical) ==
    LET lowered == str_lower(canonical) IN
    IF \E key \in DOMAIN CANONICAL_PARTIES : Spell[key] = lowered
    THEN Spell[CANONICAL_PARTIES[CHOOSE key \in DOMAIN CANONICAL_PARTIES :
                                     Spell[key] = lowered]]
    ELSE str_title(canonical)

\* ------------------------------------------------------------------------
\* Specification of the display-name round trip: a raw party string is
\* normalized, shown, and normalized again
\* ------------------------------------------------------------------------
MaxPartyChars == 3

PartyChars == {"i", "I", "d", "g", "s", " ", "U+0131", "U+00DF"}

\* every string of the two tables, and every short string of PartyChars
PartyTexts ==
    {Spell[s] : s \in DOMAIN Spell} \cup SeqUpTo(PartyChars, MaxPartyChars)

InitParties ==
    /\ input \in PartyTexts
    /\ output = [once |-> None, again |-> None]
    /\ inv = <<>>
    /\ data = NoData
    /\ validation = Pending
    /\ ParseIdle
    /\ TableIdle
    /\ CountyIdle

NormalizeOnce ==
    /\ output.once = None
    /\ output' = [output EXCEPT !.once = Result(normalize_party_text(input))]
    /\ UNCHANGED <<input, inv, valVars, parseVars, tableVars, countyVars>>

NormalizeDisplayed ==
    /\ output.once # None
    /\ output.again = None
    /\ output' = [output EXCEPT !.again =
                      Result(normalize_party_text(get_display_name_text(output.once.result)))]
    /\ UNCHANGED <<input, inv, valVars, parseVars, tableVars, countyVars>>

NextParties == NormalizeOnce \/ NormalizeDisplayed

SpecParties == InitParties /\ [][NextParties]_vars

\* C39: for every raw party string, normalizing the display name of its
\* normalized form gives that normalized form again:
\* normalize_party(get_display_name(normalize_party(raw))) = normalize_party(raw).
C39_DisplayRoundTrip ==
    output.again # None => output.again = output.once

====
